---- MODULE Spec2Model ----
(***************************************************************************)
(* A state-machine model of the phased-array beamforming repository.       *)
(*                                                                         *)
(* Real quantities are kept exact by using scaled integer units:           *)
(*   - lengths and element coordinates are in quarters of a length unit    *)
(*     (x4 = 4 * x);                                                       *)
(*   - element spacings are in halves (sp2 = 2 * element_spacing);         *)
(*   - phases are in units of pi/4 (phq = phase * 4 / pi);                 *)
(*   - delays are in eighths of a second (d8 = 8 * delay);                 *)
(*   - sines and cosines are doubled (Sin2(a) = 2 * sin(a)).               *)
(* Inputs are drawn from sets on which every value the code computes is    *)
(* exactly representable in these units.                                   *)
(***************************************************************************)
EXTENDS Integers, Sequences, FiniteSets, TLC

VARIABLES
    pa,         \* one backend PhasedArray object (phased_array.py)
    pa_ret,     \* the last PhasedArray call: its name, argument, and whether it raised
    mas,        \* one backend MultiArraySystem and the arrays it holds
    mas_ret,    \* the last MultiArraySystem call
    bf,         \* one backend Beamformer and the arrays it holds (beamformer.py)
    bf_ret,     \* the last Beamformer call and the value it returned
    engine,     \* the module-level BeamformingEngine of backend2 (routes.py)
    sim,        \* the run_simulation jobs of POST /simulate, one per request
    am,         \* one backend2 array_model.PhasedArray, once constructed
    am_ret,     \* the last array_model.PhasedArray call
    scn_ret,    \* the last ScenarioManager call: its argument and what it returned
    store,      \* the scenario files of one ScenarioManager, by file name
    scenario,   \* one backend2 Scenario object (scenario_model.py), once constructed
    scenario_ret, \* the last Scenario call and the value it returned
    eng_files,  \* the files of config/scenarios that BeamformingEngine reads and writes
    eng_ret,    \* the last BeamformingEngine scenario call
    geo,        \* the last element layout computed, with the inputs it was computed from
    steer,      \* the last steering of a linear array, with the phases it assigned
    prof,       \* the last beam-profile computation and what it returned
    tm,         \* one task manager of backend2: its tasks, queue, workers and callers
    scns,       \* one scenarios.ScenarioManager: built-in and custom scenarios, and its files
    sim2,       \* one backend_pt2 BeamformingSimulator
    upd         \* one BeamformingEngine whose arrays are updated, and the last call

\* the variables of the subsystems modelled last; each has its own frame below
laterVars == <<steer, prof, tm, scns, sim2, upd>>

vars ==
    <<pa, pa_ret, mas, mas_ret, bf, bf_ret, engine, sim,
      am, am_ret, scn_ret, store, scenario, scenario_ret, eng_files, eng_ret, geo, laterVars>>

\* what the actions of one subsystem leave alone
nonPAVars ==
    <<mas, mas_ret, bf, bf_ret, engine, sim, am,
      am_ret, scn_ret, store, scenario, scenario_ret, eng_files, eng_ret, geo, laterVars>>
nonMultiVars ==
    <<pa, pa_ret, bf, bf_ret, engine, sim, am,
      am_ret, scn_ret, store, scenario, scenario_ret, eng_files, eng_ret, geo, laterVars>>
nonBFVars ==
    <<pa, pa_ret, mas, mas_ret, engine, sim, am,
      am_ret, scn_ret, store, scenario, scenario_ret, eng_files, eng_ret, geo, laterVars>>
nonEngineVars ==
    <<pa, pa_ret, mas, mas_ret, bf, bf_ret, am,
      am_ret, scn_ret, store, scenario, scenario_ret, eng_files, eng_ret, geo, laterVars>>
nonScenarioVars ==
    <<pa, pa_ret, mas, mas_ret, bf, bf_ret, engine,
      sim, am, am_ret, scenario, scenario_ret, eng_files, eng_ret, geo, laterVars>>
nonModelVars ==
    <<pa, pa_ret, mas, mas_ret, bf, bf_ret, engine,
      sim, scn_ret, store, scenario, scenario_ret, eng_files, eng_ret, geo, laterVars>>
nonGeoVars ==
    <<pa, pa_ret, mas, mas_ret, bf, bf_ret, engine, sim,
      am, am_ret, scn_ret, store, scenario, scenario_ret, eng_files, eng_ret, laterVars>>
nonEngineScenarioVars ==
    <<pa, pa_ret, mas, mas_ret, bf, bf_ret, sim,
      am, am_ret, scn_ret, store, scenario, scenario_ret, geo, laterVars>>
nonScenarioModelVars ==
    <<pa, pa_ret, mas, mas_ret, bf, bf_ret, engine,
      sim, am, am_ret, scn_ret, store, eng_files, eng_ret, geo, laterVars>>

\* the variables of the subsystems modelled first
earlierVars ==
    <<pa, pa_ret, mas, mas_ret, bf, bf_ret, engine, sim,
      am, am_ret, scn_ret, store, scenario, scenario_ret, eng_files, eng_ret, geo>>
nonSteerVars == <<earlierVars, prof, tm, scns, sim2, upd>>
nonProfVars == <<earlierVars, steer, tm, scns, sim2, upd>>
nonTaskVars == <<earlierVars, steer, prof, scns, sim2, upd>>
nonScenariosVars == <<earlierVars, steer, prof, tm, sim2, upd>>
nonSimulatorVars == <<earlierVars, steer, prof, tm, scns, upd>>
nonUpdateVars == <<earlierVars, steer, prof, tm, scns, sim2>>

----------------------------------------------------------------------------
(* Bounds of the model *)

\* largest number of elements given to a constructor or update
MaxN == 2

\* largest number of arrays held by a MultiArraySystem
MaxArrays == 2

\* largest number of arrays held by a Beamformer
MaxBFArrays == 1

\* number of POST /simulate requests, and the largest number of arrays in one
MaxRequests == 2
MaxSimArrays == 2

----------------------------------------------------------------------------
(* Arithmetic helpers *)

Max2(a, b) == IF a >= b THEN a ELSE b

RECURSIVE SeqSum(_)
SeqSum(s) == IF s = <<>> THEN 0 ELSE Head(s) + SeqSum(Tail(s))

RECURSIVE SeqMax(_)
SeqMax(s) == IF Len(s) = 1 THEN s[1] ELSE Max2(Head(s), SeqMax(Tail(s)))

\* integer square root (floor), by search
ISqrt(x) == CHOOSE r \in 0..x : r * r <= x /\ (r + 1) * (r + 1) > x

IsSquare(x) == ISqrt(x) * ISqrt(x) = x

\* np.zeros(n), np.ones(n)
\* an Optional[...] value: None, or a value
None == [given |-> FALSE, val |-> <<>>]
Some(v) == [given |-> TRUE, val |-> v]

Zeros(n) == [i \in 1..n |-> 0]
Ones(n) == [i \in 1..n |-> 1]

\* 2*sin and 2*cos of an angle in degrees, where they are rational
Sin2(deg) ==
    CASE deg = 0 -> 0
      [] deg = 30 -> 1
      [] deg = -30 -> -1
      [] deg = 90 -> 2
      [] deg = -90 -> -2
      [] deg = 180 -> 0

Cos2(deg) ==
    CASE deg = 0 -> 2
      [] deg = 90 -> 0
      [] deg = -90 -> 0
      [] deg = 180 -> -2

RationalCosAngles == {0, 90, -90, 180}

----------------------------------------------------------------------------
(* Input sets *)

ElementCounts == 1..MaxN
Spacings2 == {1, 2}                 \* element_spacing 0.5 and 1.0
Geometries == {"linear", "curved"}
Radii == {0}                        \* curvature_radius: the degenerate arc
Orientations == {0, 90}
Positions == {<<0, 0>>}
SteeringAngles == {30, -90}
Frequencies == {0, 2}               \* Hz
Speeds == {1, 2}                    \* m/s
FocusPoints == {<<0, 0>>, <<0, 1>>}
UniformPhases == {0, 1}

\* sequences given to set_custom_phases / set_custom_amplitudes / from_dict:
\* the ramp 2, 3, ... of every length from 0 to MaxN + 1
CustomSeqs == { [k \in 1..len |-> k + 1] : len \in 0..(MaxN + 1) }

\* the lists a from_dict record carries for an array of n elements: one of
\* the right length and one that is one entry short
DictSeqs(n) == { s \in CustomSeqs : Len(s) \in {n - 1, n} }

\* an optional argument (None, or a value of S)
Opt(S) == {[given |-> FALSE, val |-> 0]} \cup {[given |-> TRUE, val |-> v] : v \in S}
OptSeq(S) == {[given |-> FALSE, val |-> <<>>]} \cup {[given |-> TRUE, val |-> v] : v \in S}

\* the keyword arguments of one update_parameters call: any one keyword, or
\* geometry together with curvature_radius, or none
NoArg == [given |-> FALSE, val |-> 0]
UpdateArgs ==
    { <<n, NoArg, NoArg, NoArg, NoArg, NoArg>> : n \in Opt(ElementCounts) }
    \cup { <<NoArg, sp2, NoArg, NoArg, NoArg, NoArg>> : sp2 \in Opt(Spacings2) }
    \cup { <<NoArg, NoArg, g, r, NoArg, NoArg>> : g \in Opt(Geometries), r \in Opt(Radii) }
    \cup { <<NoArg, NoArg, NoArg, NoArg, p, NoArg>> : p \in Opt(Positions) }
    \cup { <<NoArg, NoArg, NoArg, NoArg, NoArg, o>> : o \in Opt(Orientations) }

----------------------------------------------------------------------------
(* backend PhasedArray: src/backend/core/beamforming/phased_array.py *)

\* the configurations whose element coordinates are rational: a linear array,
\* or an arc that degenerates to one point (radius 0, or a single element)
Representable(n, geometry, radius) ==
    geometry = "linear" \/ radius = 0 \/ n = 1

\* local coordinates of element i0 (0-based), in quarter units
LocalPosition(n, sp2, geometry, radius, i0) ==
    IF geometry = "linear"
    THEN <<(2 * i0 - n + 1) * sp2, 0>>
    ELSE <<0, 0>>    \* radius * sin(angle), radius * (1 - cos(angle)) with radius = 0 or angle = 0

\* rotation by the orientation, then translation by the position
ComputeElementPositions(n, sp2, geometry, radius, position, orientation) ==
    [i \in 1..n |->
        LET l == LocalPosition(n, sp2, geometry, radius, i - 1)
            c2 == Cos2(orientation)
            s2 == Sin2(orientation)
        IN <<(l[1] * c2 - l[2] * s2) \div 2 + 4 * position[1],
             (l[1] * s2 + l[2] * c2) \div 2 + 4 * position[2]>>]

\* PhasedArray.__init__
NewPhasedArray(n, sp2, geometry, radius, position, orientation, array_id) ==
    [array_id |-> array_id,
     num_elements |-> n,
     element_spacing |-> sp2,
     geometry |-> geometry,
     curvature_radius |-> radius,
     position |-> position,
     orientation |-> orientation,
     element_positions |-> ComputeElementPositions(n, sp2, geometry, radius, position, orientation),
     phase_shifts |-> Zeros(n),
     delays |-> Zeros(n),
     amplitudes |-> Ones(n)]

\* the result of a method call: the object afterwards, and whether it raised
Ok(obj) == [obj |-> obj, raised |-> FALSE]
Raise(obj) == [obj |-> obj, raised |-> TRUE]

\* PhasedArray.set_steering_angle, linear branch: -k * d * sin(theta) with
\* d = (i - (n-1)/2) * spacing * wavelength and k = 2*pi / wavelength
LinearSteeringPhases(a, angle) ==
    [i \in 1..a.num_elements |->
        0 - (2 * (i - 1) - a.num_elements + 1) * a.element_spacing * Sin2(angle)]

\* PhasedArray.set_steering_angle, curved branch: -k * (projection - mean projection)
CurvedSteeringPhases(a, angle, frequency, speed) ==
    LET n == Len(a.element_positions)
        proj == [i \in 1..n |-> a.element_positions[i][1] * Sin2(angle)
                              + a.element_positions[i][2] * Cos2(angle)]
    IN [i \in 1..n |-> 0 - (frequency * (n * proj[i] - SeqSum(proj))) \div (n * speed)]

SetSteeringAngle(a, angle, frequency, speed) ==
    IF frequency = 0
    THEN Raise(a)                       \* speed / frequency: ZeroDivisionError
    ELSE IF a.geometry = "linear"
         THEN Ok([a EXCEPT !.phase_shifts = LinearSteeringPhases(a, angle)])
         ELSE Ok([a EXCEPT !.phase_shifts = CurvedSteeringPhases(a, angle, frequency, speed)])

\* squared distance (in quarter units) from element i to the focus point
FocusDistSq(a, focus, i) ==
    (a.element_positions[i][1] - 4 * focus[1]) * (a.element_positions[i][1] - 4 * focus[1])
    + (a.element_positions[i][2] - 4 * focus[2]) * (a.element_positions[i][2] - 4 * focus[2])

\* the focus points whose distance to every element is rational
FocusExact(a, focus) ==
    \A i \in 1..Len(a.element_positions) : IsSquare(FocusDistSq(a, focus, i))

\* np.linalg.norm(self._element_positions - focus_point, axis=1)
FocusDistances(a, focus) ==
    [i \in 1..Len(a.element_positions) |-> ISqrt(FocusDistSq(a, focus, i))]

\* variant that delays every element by its own travel time; C22 tells it
\* from the code
FocusDelaysTravelTime(a, focus, speed) ==
    LET d == FocusDistances(a, focus)
    IN [i \in 1..Len(d) |-> (2 * d[i]) \div speed]

\* (max_distance - distances) / speed, in eighths of a second
FocusDelays(a, focus, speed) ==
    LET d == FocusDistances(a, focus)
    IN [i \in 1..Len(d) |-> (2 * (SeqMax(d) - d[i])) \div speed]

SetFocusPoint(a, focus, frequency, speed) ==
    IF frequency = 0
    THEN Raise(a)                       \* speed / frequency: ZeroDivisionError
    ELSE LET dl == FocusDelays(a, focus, speed)
         IN Ok([a EXCEPT !.delays = dl,
                         !.phase_shifts = [i \in 1..Len(dl) |-> frequency * dl[i]]])

SetCustomPhases(a, phases) ==
    IF Len(phases) # a.num_elements
    THEN Raise(a)                       \* ValueError
    ELSE Ok([a EXCEPT !.phase_shifts = phases])

SetUniformPhase(a, phase) ==
    Ok([a EXCEPT !.phase_shifts = [i \in 1..a.num_elements |-> (i - 1) * phase]])

\* variant that accepts over-long sequences; C6 tells it from the code
SetCustomAmplitudesShortOnly(a, amplitudes) ==
    IF Len(amplitudes) < a.num_elements
    THEN Raise(a)
    ELSE Ok([a EXCEPT !.amplitudes = amplitudes])

SetCustomAmplitudes(a, amplitudes) ==
    IF Len(amplitudes) # a.num_elements
    THEN Raise(a)                       \* ValueError
    ELSE Ok([a EXCEPT !.amplitudes = amplitudes])

\* PhasedArray.update_parameters; each argument is optional
UpdateParameters(a, n, sp2, geometry, radius, position, orientation) ==
    LET a1 == IF n.given
              THEN [a EXCEPT !.num_elements = n.val,
                             !.phase_shifts = Zeros(n.val),
                             !.delays = Zeros(n.val),
                             !.amplitudes = Ones(n.val)]
              ELSE a
        a2 == IF sp2.given THEN [a1 EXCEPT !.element_spacing = sp2.val] ELSE a1
        a3 == IF geometry.given THEN [a2 EXCEPT !.geometry = geometry.val] ELSE a2
        a4 == IF radius.given THEN [a3 EXCEPT !.curvature_radius = radius.val] ELSE a3
        a5 == IF position.given THEN [a4 EXCEPT !.position = position.val] ELSE a4
        a6 == IF orientation.given THEN [a5 EXCEPT !.orientation = orientation.val] ELSE a5
    IN Ok([a6 EXCEPT !.element_positions =
              ComputeElementPositions(a6.num_elements, a6.element_spacing, a6.geometry,
                                      a6.curvature_radius, a6.position, a6.orientation)])

\* PhasedArray.from_dict; 'phase_shifts' and 'amplitudes' are optional keys
FromDict(n, sp2, geometry, radius, position, orientation, array_id, phase_shifts, amplitudes) ==
    LET a0 == NewPhasedArray(n, sp2, geometry, radius, position, orientation, array_id)
        a1 == IF phase_shifts.given THEN [a0 EXCEPT !.phase_shifts = phase_shifts.val] ELSE a0
        a2 == IF amplitudes.given THEN [a1 EXCEPT !.amplitudes = amplitudes.val] ELSE a1
    IN Ok(a2)

----------------------------------------------------------------------------
(* backend Beamformer: src/backend/core/beamforming/beamformer.py *)

\* Beamformer._create_grid: the meshgrid is determined by the field size and
\* the resolution it is built from
CreateGrid(field_size, resolution) == [field_size |-> field_size, resolution |-> resolution]

\* Beamformer.__init__
NewBeamformer(frequencies, speed, field_size, resolution) ==
    [frequencies |-> frequencies,
     speed |-> speed,
     field_size |-> field_size,
     resolution |-> resolution,
     arrays |-> <<>>,
     grid |-> CreateGrid(field_size, resolution),
     interference_field |-> <<>>]       \* None

\* the element waves one array contributes at one frequency: amplitude, phase
\* and position of each of its num_elements elements
ElementWaves(b, freq, a) ==
    [i \in 1..a.num_elements |->
        [freq |-> freq, speed |-> b.speed, position |-> a.element_positions[i],
         phase |-> a.phase_shifts[i], amplitude |-> a.amplitudes[i]]]

\* the waves of all arrays at one frequency, in the order the loops add them
RECURSIVE ArrayWaves(_, _, _)
ArrayWaves(b, freq, arrays) ==
    IF arrays = <<>> THEN <<>>
    ELSE ElementWaves(b, freq, Head(arrays)) \o ArrayWaves(b, freq, Tail(arrays))

RECURSIVE AllWaves(_, _)
AllWaves(b, frequencies) ==
    IF frequencies = <<>> THEN <<>>
    ELSE ArrayWaves(b, Head(frequencies), b.arrays) \o AllWaves(b, Tail(frequencies))

\* the complex field as the sum it is: its shape, the grid it is evaluated on,
\* the waves summed and the number of frequencies it is divided by.  With no
\* arrays it is np.zeros((resolution, resolution)).
InterferenceField(b) ==
    IF b.arrays = <<>>
    THEN [shape |-> b.resolution, grid |-> <<>>, waves |-> <<>>, divisor |-> 1]
    ELSE [shape |-> b.resolution, grid |-> b.grid,
          waves |-> AllWaves(b, b.frequencies), divisor |-> Len(b.frequencies)]

BOk(obj, value) == [obj |-> obj, raised |-> FALSE, value |-> value]

\* Beamformer.add_array
BFAddArray(b, array) == BOk([b EXCEPT !.arrays = Append(@, array)], <<>>)

\* Beamformer.remove_array
BFRemoveArray(b, array_id) ==
    BOk([b EXCEPT !.arrays = SelectSeq(@, LAMBDA a : a.array_id # array_id)], <<>>)

\* Beamformer.clear_arrays
BFClearArrays(b) == BOk([b EXCEPT !.arrays = <<>>], <<>>)

\* Beamformer.set_frequencies
BFSetFrequencies(b, frequencies) == BOk([b EXCEPT !.frequencies = frequencies], <<>>)

\* Beamformer.set_speed
BFSetSpeed(b, speed) == BOk([b EXCEPT !.speed = speed], <<>>)

\* Beamformer.update_field_parameters; both arguments are optional
BFUpdateFieldParameters(b, field_size, resolution) ==
    LET b1 == IF field_size.given THEN [b EXCEPT !.field_size = field_size.val] ELSE b
        b2 == IF resolution.given THEN [b1 EXCEPT !.resolution = resolution.val] ELSE b1
    IN BOk([b2 EXCEPT !.grid = CreateGrid(b2.field_size, b2.resolution)], <<>>)

\* Beamformer.compute_interference_field
BFComputeInterferenceField(b) ==
    LET f == InterferenceField(b)
    IN BOk([b EXCEPT !.interference_field = f], f)

\* Beamformer.get_intensity_field: |field|^2 of the stored field, which is
\* computed only if none is stored
BFGetIntensityField(b) ==
    LET b1 == IF b.interference_field = <<>> THEN BFComputeInterferenceField(b).obj ELSE b
    IN BOk(b1, [fn |-> "abs2", of |-> b1.interference_field])

\* Beamformer.get_phase_field: np.angle of the stored field
BFGetPhaseField(b) ==
    LET b1 == IF b.interference_field = <<>> THEN BFComputeInterferenceField(b).obj ELSE b
    IN BOk(b1, [fn |-> "angle", of |-> b1.interference_field])

\* Beamformer.steer_all_arrays
BFSteerAllArrays(b, angle) ==
    BOk([b EXCEPT !.arrays =
            [k \in 1..Len(b.arrays) |->
                SetSteeringAngle(b.arrays[k], angle, b.frequencies[1], b.speed).obj]], <<>>)

\* Beamformer.focus_all_arrays
BFFocusAllArrays(b, focus) ==
    BOk([b EXCEPT !.arrays =
            [k \in 1..Len(b.arrays) |->
                SetFocusPoint(b.arrays[k], focus, b.frequencies[1], b.speed).obj]], <<>>)

----------------------------------------------------------------------------
(* backend2 BeamformingEngine: src/backend2/core/beamforming_engine.py *)

\* BeamformingEngine.__init__
NewEngine ==
    [arrays |-> <<>>, sources |-> <<>>, frequencies |-> <<>>,
     beam_pattern |-> None, interference_map |-> None,
     grid_size |-> 200, grid_range |-> 10]

\* variant that starts the line at the origin instead of centring it; C17
\* tells it from the code
EngineLinearArrayFromOrigin(num_elements, sp2) ==
    [i \in 1..num_elements |-> <<2 * (i - 1) * sp2, 0>>]

\* BeamformingEngine._create_linear_array, in quarter units
EngineLinearArray(num_elements, sp2) ==
    [i \in 1..num_elements |-> <<(2 * (i - 1) - num_elements + 1) * sp2, 0>>]

\* BeamformingEngine._create_rectangular_array, in quarter units: the first
\* num_elements points, row by row, of the centred lattice of
\* rows = int(sqrt(n)) by cols = ceil(n / rows) points
EngineRectangularArray(num_elements, sp2) ==
    LET rows == ISqrt(num_elements)
        cols == (num_elements + rows - 1) \div rows
    IN [idx \in 1..num_elements |->
           <<(2 * ((idx - 1) % cols) - (cols - 1)) * sp2,
             (2 * ((idx - 1) \div cols) - (rows - 1)) * sp2>>]

\* BeamformingEngine._create_curved_array where the coordinates are rational:
\* curvature 0 builds the linear array, and a single element sits at angle 0
EngineCurvedRepresentable(num_elements, curvature) == curvature = 0 \/ num_elements = 1

EngineCurvedArray(num_elements, sp2, curvature) ==
    IF curvature = 0
    THEN EngineLinearArray(num_elements, sp2)
    ELSE [i \in 1..num_elements |-> <<0, 0>>]   \* radius * sin(0), radius * (1 - cos(0))

\* BeamformingEngine._calculate_element_positions, the dispatch on the type:
\* the local coordinates of a linear, rectangular or representable curved
\* array (a type that is none of the four known ones is laid out as a linear
\* array)
EngineLocalPositions(array) ==
    IF array.type = "rectangular"
    THEN EngineRectangularArray(array.num_elements, array.spacing)
    ELSE IF array.type = "curved"
    THEN EngineCurvedArray(array.num_elements, array.spacing, array.curvature)
    ELSE EngineLinearArray(array.num_elements, array.spacing)

\* BeamformingEngine._calculate_element_positions: rotation by the orientation
\* when it is not 0, then translation
EngineElementPositions(array) ==
    LET local == EngineLocalPositions(array)
        c2 == Cos2(array.orientation)
        s2 == Sin2(array.orientation)
    IN [i \in 1..Len(local) |->
          IF array.orientation # 0
          THEN <<(local[i][1] * c2 - local[i][2] * s2) \div 2 + 4 * array.position[1],
                 (local[i][1] * s2 + local[i][2] * c2) \div 2 + 4 * array.position[2]>>
          ELSE <<local[i][1] + 4 * array.position[1], local[i][2] + 4 * array.position[2]>>]

\* BeamformingEngine.add_array with a configuration that carries every key (as
\* ArrayConfig.dict() does, array_id included): the defaults change nothing
EngineAddArray(e, array_config) ==
    LET array == [array_id |-> array_config.array_id,
                  type |-> array_config.type,
                  num_elements |-> array_config.num_elements,
                  spacing |-> array_config.spacing,
                  position |-> array_config.position,
                  orientation |-> array_config.orientation,
                  curvature |-> array_config.curvature,
                  delays |-> array_config.delays,
                  amplitudes |-> array_config.amplitudes,
                  enabled |-> array_config.enabled,
                  element_positions |-> EngineElementPositions(array_config)]
    IN [e EXCEPT !.arrays = Append(@, array)]

\* the parameters that update_array_parameter recomputes the element
\* positions for, and those it only stores
GeometryParameters == {"position", "orientation", "curvature", "spacing", "num_elements"}
SimpleParameters == {"delays", "amplitudes", "enabled"}

\* BeamformingEngine.update_array_parameter. array_id indexes the Python list
\* self.arrays: after the test array_id >= len(self.arrays) a negative
\* array_id counts from the end of the list, and one below -len(self.arrays)
\* raises IndexError. The list is indexed only for a known parameter
EngineUpdateArrayParameter(e, array_id, parameter, value) ==
    IF array_id >= Len(e.arrays)
    THEN [obj |-> e, raised |-> FALSE, value |-> FALSE]
    ELSE IF parameter \notin GeometryParameters \cup SimpleParameters
    THEN [obj |-> e, raised |-> FALSE, value |-> FALSE]
    ELSE IF array_id < 0 - Len(e.arrays)
    THEN [obj |-> e, raised |-> TRUE, value |-> FALSE]
    ELSE LET k == IF array_id < 0 THEN Len(e.arrays) + array_id + 1 ELSE array_id + 1
             set == [e.arrays[k] EXCEPT ![parameter] = value]
         IN [obj |-> [e EXCEPT !.arrays[k] =
                         IF parameter \in GeometryParameters
                         THEN [set EXCEPT !.element_positions = EngineElementPositions(set)]
                         ELSE set],
             raised |-> FALSE, value |-> TRUE]

\* the keys whose presence in the body makes routes.update_array recompute
\* the element positions
RouteGeometryKeys ==
    {"type", "num_elements", "spacing", "position", "orientation", "curvature"}

\* routes.update_array, the index of the array: int(array_id) for a decimal
\* string (a negative number included); for any other string the index of
\* the first array whose 'array_id' is that string, None when there is none
UpdateArrayIndex(e, array_id) ==
    IF array_id.kind = "int"
    THEN Some(array_id.int)
    ELSE LET hits == { i \in 1..Len(e.arrays) :
                           e.arrays[i].array_id.given /\ e.arrays[i].array_id.val = array_id.name }
         IN IF hits = {} THEN None
            ELSE Some((CHOOSE i \in hits : \A j \in hits : i <= j) - 1)

\* routes.update_array (PUT /array/<array_id>) on the engine of the routes,
\* with the status of the response. An empty body is answered 400. The
\* index is tested only against len(arrays): a negative one indexes the
\* Python list from its end, and one below -len(arrays) raises IndexError
\* (500). Every key of the body that the array has is set, type, array_id
\* and element_positions included; the positions are computed again when a
\* geometry key is in the body
UpdateArray(e, array_id, data) ==
    LET idx == UpdateArrayIndex(e, array_id)
    IN IF DOMAIN data = {}
       THEN [obj |-> e, status |-> 400]
       ELSE IF ~idx.given \/ idx.val >= Len(e.arrays)
       THEN [obj |-> e, status |-> 404]
       ELSE IF idx.val < 0 - Len(e.arrays)
       THEN [obj |-> e, status |-> 500]
       ELSE LET k == IF idx.val < 0 THEN Len(e.arrays) + idx.val + 1 ELSE idx.val + 1
                set == [key \in DOMAIN e.arrays[k] |->
                            IF key \in DOMAIN data THEN data[key] ELSE e.arrays[k][key]]
            IN [obj |-> [e EXCEPT !.arrays[k] =
                            IF DOMAIN data \cap RouteGeometryKeys # {}
                            THEN [set EXCEPT !.element_positions = EngineElementPositions(set)]
                            ELSE set],
                status |-> 200]

\* BeamformingEngine.add_source with a configuration that carries every key
EngineAddSource(e, source_config) == [e EXCEPT !.sources = Append(@, source_config)]

\* _compute_array_field raises TypeError at len(None) when the array's delays
\* or amplitudes are None
ArrayFieldRaises(array) == ~array.delays.given \/ ~array.amplitudes.given

\* the element waves _compute_array_field adds for one frequency; an empty
\* delay list stands for the steering delays of the requested angle
ArrayFieldWaves(array, freq, steering_angle) ==
    LET cnt == IF array.num_elements <= Len(array.element_positions)
               THEN array.num_elements ELSE Len(array.element_positions)
    IN [i \in 1..cnt |->
          [freq |-> freq,
           position |-> array.element_positions[i],
           delay |-> IF Len(array.delays.val) = 0 THEN <<"steering", steering_angle>>
                     ELSE IF i <= Len(array.delays.val) THEN array.delays.val[i] ELSE 0,
           amplitude |-> IF i <= Len(array.amplitudes.val)
                         THEN array.amplitudes.val[i] ELSE 1]]

RECURSIVE ArrayField(_, _, _)
ArrayField(array, frequencies, steering_angle) ==
    IF frequencies = <<>> THEN <<>>
    ELSE ArrayFieldWaves(array, Head(frequencies), steering_angle)
             \o ArrayField(array, Tail(frequencies), steering_angle)

RECURSIVE TotalField(_, _, _)
TotalField(arrays, frequencies, steering_angle) ==
    IF arrays = <<>> THEN <<>>
    ELSE (IF Head(arrays).enabled
          THEN ArrayField(Head(arrays), frequencies, steering_angle) ELSE <<>>)
             \o TotalField(Tail(arrays), frequencies, steering_angle)

\* BeamformingEngine.compute_beam_pattern up to "Normalize magnitude": the
\* pattern is the normalised sum of the waves of the engine's enabled arrays
\* on the requested grid (grid_size and grid_range default to the engine's)
EngineBeamPatternField(e, frequencies, steering_angle, grid_size, grid_range) ==
    IF \E k \in 1..Len(e.arrays) :
           e.arrays[k].enabled /\ frequencies # <<>> /\ ArrayFieldRaises(e.arrays[k])
    THEN [raised |-> TRUE, value |-> <<>>]
    ELSE [raised |-> FALSE,
          value |-> [waves |-> TotalField(e.arrays, frequencies, steering_angle),
                     steering_angle |-> steering_angle,
                     frequencies |-> frequencies,
                     grid_size |-> IF grid_size.given THEN grid_size.val ELSE e.grid_size,
                     grid_range |-> IF grid_range.given THEN grid_range.val
                                    ELSE e.grid_range]]

\* BeamformingEngine.compute_beam_pattern, "Store results": self.beam_pattern
\* is assigned
EngineStoreBeamPattern(e, pattern) == [e EXCEPT !.beam_pattern = Some(pattern)]

\* BeamformingEngine.compute_beam_pattern run without interruption: the
\* pattern is computed, stored, and self.beam_pattern is returned
EngineComputeBeamPattern(e, frequencies, steering_angle, grid_size, grid_range) ==
    LET res == EngineBeamPatternField(e, frequencies, steering_angle, grid_size, grid_range)
    IN IF res.raised
       THEN [obj |-> e, raised |-> TRUE, value |-> <<>>]
       ELSE [obj |-> EngineStoreBeamPattern(e, res.value),
             raised |-> FALSE,
             value |-> EngineStoreBeamPattern(e, res.value).beam_pattern.val]

\* self.config.get('DEFAULT_FREQUENCY', 2.4e9) of an engine built without
\* configuration, in units of 1e8 Hz
EngineDefaultFrequency == 24

\* BeamformingEngine.steer_beam, its first statement: without frequencies the
\* engine takes the default frequency
EngineSteerFrequencies(e) ==
    IF e.frequencies = <<>> THEN [e EXCEPT !.frequencies = <<EngineDefaultFrequency>>] ELSE e

\* BeamformingEngine.steer_beam run without interruption
EngineSteerBeam(e, steering_angle) ==
    EngineComputeBeamPattern(EngineSteerFrequencies(e), EngineSteerFrequencies(e).frequencies,
                             steering_angle, None, None)

\* BeamformingEngine.compute_interference_map with an explicit source list,
\* up to "Compute interference power"
EngineInterferenceField(e, sources, grid_size, grid_range) ==
    [waves |-> SelectSeq(sources, LAMBDA src : src.enabled),
     sources |-> sources,
     grid_size |-> grid_size,
     grid_range |-> grid_range]

\* BeamformingEngine.compute_interference_map run without interruption
EngineComputeInterferenceMap(e, sources, grid_size, grid_range) ==
    LET map == EngineInterferenceField(e, sources, grid_size, grid_range)
    IN [obj |-> [e EXCEPT !.interference_map = Some(map)], raised |-> FALSE, value |-> map]

\* what BeamformingEngine.save_scenario leaves in the file when json.dump
\* stops at a value it cannot encode, and what a complete file holds
PartialFile == [complete |-> FALSE, data |-> <<>>]
CompleteFile(scenario_data) == [complete |-> TRUE, data |-> scenario_data]

\* name.lower().replace(' ', '_') in BeamformingEngine.save_scenario, on the
\* names used
EngineFileName(name) == IF name = "S" THEN "s" ELSE name

\* BeamformingEngine.save_scenario: the file name is the lower-cased name;
\* json.dump raises TypeError at the numpy element_positions of the first
\* array, after the file has been opened for writing
EngineSaveScenario(e, files, name) ==
    LET scenario_data == [name |-> name, arrays |-> e.arrays, sources |-> e.sources,
                          frequencies |-> e.frequencies, grid_size |-> e.grid_size,
                          grid_range |-> e.grid_range]
        written == IF e.arrays # <<>> THEN PartialFile ELSE CompleteFile(scenario_data)
    IN [files |-> [f \in DOMAIN files \cup {EngineFileName(name)} |->
                      IF f = EngineFileName(name) THEN written ELSE files[f]],
        raised |-> e.arrays # <<>>]

RECURSIVE EngineAddArrays(_, _)
EngineAddArrays(e, array_configs) ==
    IF array_configs = <<>> THEN e
    ELSE EngineAddArrays(EngineAddArray(e, Head(array_configs)), Tail(array_configs))

RECURSIVE EngineAddSources(_, _)
EngineAddSources(e, source_configs) ==
    IF source_configs = <<>> THEN e
    ELSE EngineAddSources(EngineAddSource(e, Head(source_configs)), Tail(source_configs))

\* BeamformingEngine.load_scenario: the file is looked up under the name as
\* given; a missing file raises FileNotFoundError and a file that is not
\* complete JSON raises JSONDecodeError, both before anything is cleared
EngineLoadScenario(e, files, scenario_name) ==
    IF scenario_name \notin DOMAIN files
    THEN [obj |-> e, raised |-> TRUE, value |-> None]
    ELSE IF ~files[scenario_name].complete
    THEN [obj |-> e, raised |-> TRUE, value |-> None]
    ELSE LET scenario_data == files[scenario_name].data
             cleared == [e EXCEPT !.arrays = <<>>, !.sources = <<>>]
             filled == EngineAddSources(EngineAddArrays(cleared, scenario_data.arrays),
                                        scenario_data.sources)
         IN [obj |-> [filled EXCEPT !.frequencies = scenario_data.frequencies,
                                    !.grid_size = scenario_data.grid_size,
                                    !.grid_range = scenario_data.grid_range],
             raised |-> FALSE, value |-> Some(scenario_data)]

\* BeamformingEngine.clear_simulation
EngineClearSimulation(e) ==
    [e EXCEPT !.arrays = <<>>, !.sources = <<>>, !.frequencies = <<>>,
              !.beam_pattern = None, !.interference_map = None]

----------------------------------------------------------------------------
(* backend2 array model: src/backend2/models/array_model.py *)
(* Frequencies are in units of 1e8 Hz; a wavelength is the exact fraction  *)
(* num / den of a metre; a phase is in units of 2*pi * 1e8 Hz * one unit   *)
(* of delay, so that the phase of a delay d at frequency f is f * d.       *)

\* speed_of_light = 3e8, in units of 1e8 m/s
SpeedOfLight == 3

\* self.frequency = 2.4e9, the default frequency
DefaultFrequency == 24

\* PhasedArray._calculate_wavelength
CalculateWavelength(frequency) ==
    IF frequency > 0
    THEN [num |-> SpeedOfLight, den |-> frequency]
    ELSE [num |-> 1, den |-> 8]         \* 0.125

\* a fraction in lowest terms with a positive denominator
RECURSIVE Gcd(_, _)
Gcd(m, n) == IF n = 0 THEN m ELSE Gcd(n, m % n)
Fraction(n, d) ==
    LET s == IF d < 0 THEN 0 - 1 ELSE 1
        g == Gcd(IF n < 0 THEN 0 - n ELSE n, IF d < 0 THEN 0 - d ELSE d)
    IN [num |-> (s * n) \div g, den |-> (s * d) \div g]

\* An element phase is the sum 2*pi * two_pi + rad of a rational multiple of
\* 2*pi and a rational number of radians. A delay is in units of 1e-8 s, so
\* that 2*pi * frequency * delay is 2*pi times the whole number
\* frequency * delay.
ZeroPhase == [two_pi |-> Fraction(0, 1), rad |-> Fraction(0, 1)]
DelayPhase(frequency, delay) == [two_pi |-> Fraction(frequency * delay, 1), rad |-> Fraction(0, 1)]

\* ArrayElement(position=...): amplitude 1.0, phase 0.0, delay 0.0
NewArrayElement(position) ==
    [position |-> position, amplitude |-> 1, phase |-> ZeroPhase, delay |-> 0]

\* PhasedArray._create_circular_array: element k of n sits at angle 2*pi*k/n
\* on the circle of radius spacing * n / (2*pi) around the array position
CreateCircularArray(a) ==
    [i \in 1..a.num_elements |->
        NewArrayElement([center |-> a.position,
                         radius_2pi |-> a.spacing * a.num_elements,
                         turn |-> <<i - 1, a.num_elements>>])]

\* curvature is in twentieths of 1 / length unit (c20 = 20 * curvature), so
\* that radius = 1 / curvature is 80 / c20 quarter units
ModelRadius4(c20) == 80 \div c20

\* the curved configurations whose element coordinates are rational: at most
\* three elements (angles -a, 0, a with sin(a) = (n-1) * spacing / (2 * radius))
\* and a rational cos(a)
ModelCurvedRepresentable(n, sp2, c20) ==
    /\ c20 # 0 /\ 80 % c20 = 0
    /\ n <= 3
    /\ (n - 1) * sp2 <= ModelRadius4(c20)
    /\ IsSquare(ModelRadius4(c20) * ModelRadius4(c20) - (n - 1) * sp2 * (n - 1) * sp2)

\* PhasedArray._create_curved_array with curvature # 0, in quarter units:
\* angles = linspace(-a, a, n) with a = arcsin((n-1) * spacing / (2 * radius)),
\* element at position + (radius * sin(angle), radius * (1 - cos(angle)));
\* neither the wavelength nor the orientation is used
CreateCurvedArray(a) ==
    LET r4 == ModelRadius4(a.curvature)
        h4 == (a.num_elements - 1) * a.spacing          \* radius * sin(a)
        d4 == r4 - ISqrt(r4 * r4 - h4 * h4)             \* radius * (1 - cos(a))
    IN [i \in 1..a.num_elements |->
           LET t == 2 * (i - 1) - (a.num_elements - 1)  \* angle = t / (n-1) * a
           IN NewArrayElement(<<4 * a.position[1]
                                  + (IF t < 0 THEN 0 - h4 ELSE IF t > 0 THEN h4 ELSE 0),
                                4 * a.position[2] + (IF t = 0 THEN 0 ELSE d4)>>)]

\* the geometries whose elements are built from self.wavelength: linear,
\* rectangular, and curved with curvature 0 (which builds a linear array)
UsesWavelength(a) ==
    \/ a.array_type \in {"linear", "rectangular"}
    \/ a.array_type = "curved" /\ a.curvature = 0

\* PhasedArray._initialize_elements for the geometries modelled
InitializeElements(a) ==
    IF a.array_type = "circular"
    THEN [a EXCEPT !.elements = CreateCircularArray(a)]
    ELSE IF a.array_type = "curved" /\ a.curvature # 0
    THEN [a EXCEPT !.elements = CreateCurvedArray(a)]
    ELSE a

\* PhasedArray.__init__: the elements are initialized before self.wavelength
\* is assigned, so a geometry that reads self.wavelength raises AttributeError
NewArrayModel(array_id, array_type, num_elements, spacing, position, orientation, curvature) ==
    LET a0 == [array_id |-> array_id, array_type |-> array_type,
               num_elements |-> num_elements, spacing |-> spacing, position |-> position,
               orientation |-> orientation, curvature |-> curvature, elements |-> <<>>,
               frequency |-> DefaultFrequency,
               wavelength |-> CalculateWavelength(DefaultFrequency)]
    IN IF UsesWavelength(a0)
       THEN [obj |-> None, raised |-> TRUE]
       ELSE [obj |-> Some(InitializeElements(a0)), raised |-> FALSE]

\* PhasedArray.set_frequency
AMSetFrequency(a, frequency) ==
    Ok(InitializeElements([a EXCEPT !.frequency = frequency,
                                    !.wavelength = CalculateWavelength(frequency)]))

\* PhasedArray.apply_delays
AMApplyDelays(a, delays) ==
    Ok([a EXCEPT !.elements =
           [i \in 1..Len(a.elements) |->
               IF i <= Len(delays)
               THEN [a.elements[i] EXCEPT !.delay = delays[i],
                                          !.phase = DelayPhase(a.frequency, delays[i])]
               ELSE a.elements[i]]])

\* 2 * cos(2*pi*k/n) for the element counts where it is rational
CosTurn2(k, n) ==
    CASE n = 1 -> 2
      [] n = 2 -> IF k = 0 THEN 2 ELSE 0 - 2
      [] n = 3 -> IF k = 0 THEN 2 ELSE 0 - 1
      [] n = 4 -> <<2, 0, 0 - 2, 0>>[k + 1]
      [] n = 6 -> <<2, 1, 0 - 1, 0 - 2, 0 - 1, 1>>[k + 1]

\* the arrays whose steering phases are of the form 2*pi * q + r with
\* rational q and r
SteeringRepresentable(a, steering_angle) ==
    \/ Sin2(steering_angle) = 0
    \/ a.array_type # "circular"
    \/ \A i \in 1..Len(a.elements) : a.elements[i].position.turn[2] \in {1, 2, 3, 4, 6}

\* phase_shift = 2*pi * element.position[0] * sin(steering_rad) / wavelength.
\* The x coordinate of a circular element is centre + radius * cos(turn) with
\* radius = spacing * n / (2*pi) (spacing in halves); that of any other
\* element is a number of quarter units
SteeringPhase(a, element, steering_angle) ==
    LET s2 == Sin2(steering_angle)
        w == a.wavelength
    IN IF a.array_type = "circular"
       THEN [two_pi |-> Fraction(element.position.center[1] * s2 * w.den, 2 * w.num),
             rad |-> IF s2 = 0 THEN Fraction(0, 1)
                     ELSE Fraction(element.position.radius_2pi
                                     * CosTurn2(element.position.turn[1],
                                                element.position.turn[2])
                                     * s2 * w.den,
                                   8 * w.num)]
       ELSE [two_pi |-> Fraction(element.position[1] * s2 * w.den, 8 * w.num),
             rad |-> Fraction(0, 1)]

\* PhasedArray.apply_steering: the phase of every element is set from its x
\* coordinate; the delays are left as they are
AMApplySteering(a, steering_angle) ==
    Ok([a EXCEPT !.elements =
           [i \in 1..Len(a.elements) |->
               [a.elements[i] EXCEPT !.phase = SteeringPhase(a, a.elements[i], steering_angle)]]])

\* PhasedArray.from_dict: the array is constructed (which raises as the
\* constructor does), the frequency of the dictionary (2.4e9 without the key)
\* is set, and the elements are replaced by those of the dictionary if it
\* carries the key 'elements', however many they are
AMFromDict(data) ==
    LET res == NewArrayModel(data.array_id, data.array_type, data.num_elements, data.spacing,
                             data.position, data.orientation, data.curvature)
    IN IF res.raised
       THEN [obj |-> None, raised |-> TRUE]
       ELSE LET a1 == AMSetFrequency(res.obj.val,
                                     IF data.frequency.given THEN data.frequency.val
                                     ELSE DefaultFrequency).obj
            IN [obj |-> Some(IF data.elements.given
                             THEN [a1 EXCEPT !.elements = data.elements.val]
                             ELSE a1),
                raised |-> FALSE]

----------------------------------------------------------------------------
(* backend ScenarioManager: src/backend/core/beamforming/scenario_manager.py *)
(* (backend_pt2/models/scenario_manager.py validates in the same way).     *)
(* A scenario record is a dictionary: each key is absent (None) or present *)
(* with a value.                                                           *)

\* the range of num_elements that validate_scenario accepts
MinElements == 2
MaxElements == 256

\* str.lower(), on the type names used
Lower(str) ==
    CASE str = "Linear" -> "linear"
      [] str = "Curved" -> "curved"
      [] OTHER -> str

\* valid_array_types
ValidArrayTypes == {"Linear", "Curved", "linear", "curved"}

\* variant that never looks at curvature_radius; C10 tells it from the code
ValidateScenarioRadiusUnchecked(scenario_data) ==
    IF \/ ~scenario_data.name.given \/ ~scenario_data.num_elements.given
       \/ ~scenario_data.frequency.given \/ ~scenario_data.array_type.given
    THEN [valid |-> FALSE, error |-> "Missing required field"]
    ELSE IF scenario_data.num_elements.val < MinElements
            \/ scenario_data.num_elements.val > MaxElements
    THEN [valid |-> FALSE, error |-> "num_elements must be between 2 and 256"]
    ELSE IF scenario_data.frequency.val <= 0
    THEN [valid |-> FALSE, error |-> "frequency must be positive"]
    ELSE IF scenario_data.array_type.val \notin {"Linear", "Curved", "linear", "curved"}
    THEN [valid |-> FALSE, error |-> "array_type must be 'Linear' or 'Curved'"]
    ELSE [valid |-> TRUE, error |-> ""]

\* ScenarioManager.validate_scenario: (is_valid, error_message)
ValidateScenario(scenario_data) ==
    IF ~scenario_data.name.given
    THEN [valid |-> FALSE, error |-> "Missing required field: name"]
    ELSE IF ~scenario_data.num_elements.given
    THEN [valid |-> FALSE, error |-> "Missing required field: num_elements"]
    ELSE IF ~scenario_data.frequency.given
    THEN [valid |-> FALSE, error |-> "Missing required field: frequency"]
    ELSE IF ~scenario_data.array_type.given
    THEN [valid |-> FALSE, error |-> "Missing required field: array_type"]
    ELSE IF scenario_data.num_elements.val < MinElements
            \/ scenario_data.num_elements.val > MaxElements
    THEN [valid |-> FALSE, error |-> "num_elements must be between 2 and 256"]
    ELSE IF scenario_data.frequency.val <= 0
    THEN [valid |-> FALSE, error |-> "frequency must be positive"]
    ELSE IF scenario_data.array_type.val \notin ValidArrayTypes
    THEN [valid |-> FALSE, error |-> "array_type must be 'Linear' or 'Curved'"]
    ELSE IF /\ Lower(scenario_data.array_type.val) = "curved"
            /\ scenario_data.curvature_radius.given
            /\ scenario_data.curvature_radius.val <= 0
    THEN [valid |-> FALSE, error |-> "curvature_radius must be positive for curved arrays"]
    ELSE [valid |-> TRUE, error |-> ""]

----------------------------------------------------------------------------
(* ScenarioManager's store: one JSON file per scenario in scenarios_dir.   *)
(* A file is the list of the key/value pairs json.dump writes; the store   *)
(* is a function from the names of the files that exist to their content.  *)
(* Frequencies of stored scenarios are in MHz.                             *)

\* scenario_name.lower().replace(' ', '_'), on the names used
FileName(scenario_name) ==
    CASE scenario_name = "5G Beamforming" -> "5g_beamforming"
      [] scenario_name = "Ultrasound Imaging" -> "ultrasound_imaging"
      [] scenario_name = "Tumor Ablation" -> "tumor_ablation"
      [] scenario_name = "tumor ablation" -> "tumor_ablation"
      [] scenario_name = "Receiver Mode 5G" -> "receiver_mode_5g"
      [] scenario_name = "S" -> "s"
      [] OTHER -> scenario_name

\* the keys of a scenario dictionary that the model carries
ScenarioKeys == <<"name", "num_elements", "frequency", "array_type", "curvature_radius">>

\* json.dump(scenario_data, f): the pairs of the keys the dictionary has
JsonDump(scenario_data) ==
    LET present == SelectSeq(ScenarioKeys, LAMBDA k : scenario_data[k].given)
    IN [i \in 1..Len(present) |-> <<present[i], scenario_data[present[i]].val>>]

\* json.load(f): the dictionary of the pairs in the file
JsonLoad(text) ==
    [k \in {ScenarioKeys[i] : i \in 1..Len(ScenarioKeys)} |->
        IF \E i \in 1..Len(text) : text[i][1] = k
        THEN Some(text[CHOOSE i \in 1..Len(text) : text[i][1] = k][2])
        ELSE None]

\* a scenario dictionary with the five keys
ScenarioDict(name, num_elements, frequency, array_type, curvature_radius) ==
    [name |-> name, num_elements |-> num_elements, frequency |-> frequency,
     array_type |-> array_type, curvature_radius |-> curvature_radius]

\* default_scenarios of _create_default_scenarios
DefaultScenarios ==
    {ScenarioDict(Some("5G Beamforming"), Some(64), Some(28000), Some("Linear"), None),
     ScenarioDict(Some("Ultrasound Imaging"), Some(128), Some(5), Some("Curved"), None),
     ScenarioDict(Some("Tumor Ablation"), Some(32), Some(1), Some("Curved"), Some(4)),
     ScenarioDict(Some("Receiver Mode 5G"), Some(16), Some(10000), Some("Linear"), None)}

\* ScenarioManager.__init__ on an empty directory: the default files
NewScenarioManager ==
    [f \in {FileName(d.name.val) : d \in DefaultScenarios} |->
        JsonDump(CHOOSE d \in DefaultScenarios : FileName(d.name.val) = f)]

\* ScenarioManager.load_scenario: the dictionary, or None when the file is missing
LoadScenario(st, scenario_name) ==
    IF FileName(scenario_name) \in DOMAIN st
    THEN Some(JsonLoad(st[FileName(scenario_name)]))
    ELSE None

\* variant that writes the file before it validates; C12 tells it from the code
SaveScenarioWritesFirst(st, scenario_data) ==
    IF ~scenario_data.given
    THEN [store |-> st, raised |-> TRUE]
    ELSE IF ~scenario_data.val.name.given
    THEN [store |-> st, raised |-> TRUE]
    ELSE [store |-> [f \in DOMAIN st \cup {FileName(scenario_data.val.name.val)} |->
                        IF f = FileName(scenario_data.val.name.val)
                        THEN JsonDump(scenario_data.val) ELSE st[f]],
          raised |-> ~ValidateScenario(scenario_data.val).valid]

\* variant that does not write curvature_radius; C13 tells it from the code
SaveScenarioDropsRadius(st, scenario_data) ==
    IF ~scenario_data.given
    THEN [store |-> st, raised |-> TRUE]
    ELSE IF ~scenario_data.val.name.given
    THEN [store |-> st, raised |-> TRUE]
    ELSE IF ~ValidateScenario(scenario_data.val).valid
    THEN [store |-> st, raised |-> TRUE]
    ELSE [store |-> [f \in DOMAIN st \cup {FileName(scenario_data.val.name.val)} |->
                        IF f = FileName(scenario_data.val.name.val)
                        THEN JsonDump([scenario_data.val EXCEPT !.curvature_radius = None])
                        ELSE st[f]],
          raised |-> FALSE]

\* ScenarioManager.save_scenario; the argument is a dictionary or None
SaveScenario(st, scenario_data) ==
    IF ~scenario_data.given
    THEN [store |-> st, raised |-> TRUE]        \* 'name' in None: TypeError
    ELSE IF ~scenario_data.val.name.given
    THEN [store |-> st, raised |-> TRUE]        \* ValueError
    ELSE IF ~ValidateScenario(scenario_data.val).valid
    THEN [store |-> st, raised |-> TRUE]        \* ValueError
    ELSE [store |-> [f \in DOMAIN st \cup {FileName(scenario_data.val.name.val)} |->
                        IF f = FileName(scenario_data.val.name.val)
                        THEN JsonDump(scenario_data.val) ELSE st[f]],
          raised |-> FALSE]

\* ScenarioManager.delete_scenario: whether a file was removed
DeleteScenario(st, scenario_name) ==
    IF FileName(scenario_name) \in DOMAIN st
    THEN [store |-> [f \in DOMAIN st \ {FileName(scenario_name)} |-> st[f]], value |-> TRUE]
    ELSE [store |-> st, value |-> FALSE]

----------------------------------------------------------------------------
(* backend2 Scenario: src/backend2/models/scenario_model.py                *)
(* Frequencies are in kHz.  Of ScenarioParameters the model carries        *)
(* frequency, propagation_speed, num_elements, array_type and              *)
(* steering_angle; of a Source its source_id and type; of an array         *)
(* configuration its array_id, type and num_elements; of the metadata the  *)
(* set of its keys.                                                        *)

\* ScenarioType values
ScenarioTypes == {"5g", "ultrasound", "tumor_ablation", "radar", "sonar", "custom"}

\* ScenarioParameters()
DefaultParameters ==
    [frequency |-> 2400000, propagation_speed |-> 300000000, num_elements |-> 8,
     array_type |-> "linear", steering_angle |-> 0]

ScenarioSource(source_id, type) == [source_id |-> source_id, type |-> type]

ScenarioArray(array_id, type, num_elements) ==
    [array_id |-> array_id, type |-> type, num_elements |-> num_elements]

\* the metadata dictionary Scenario.__init__ creates
DefaultMetadata == {"created_at", "modified_at", "version", "author"}

\* Scenario._initialize_by_type, on the object __init__ has filled in
InitializeByType(s) ==
    CASE s.scenario_type = "5g" ->
           [s EXCEPT !.name = "5G Base Station Scenario",
                     !.description = "5G base station with beamforming for mobile communication",
                     !.parameters = [@ EXCEPT !.frequency = 3500000, !.num_elements = 32,
                                              !.array_type = "linear", !.steering_angle = 30],
                     !.sources = <<ScenarioSource("tx_1", "transmitter"),
                                   ScenarioSource("rx_1", "receiver"),
                                   ScenarioSource("int_1", "interference")>>,
                     !.arrays = <<ScenarioArray("array_1", "linear", 32)>>,
                     !.metadata = @ \cup {"application", "frequency_band"}]
      [] s.scenario_type = "ultrasound" ->
           [s EXCEPT !.name = "Medical Ultrasound Imaging",
                     !.description = "Curved array ultrasound for medical imaging",
                     !.parameters = [@ EXCEPT !.frequency = 5000, !.propagation_speed = 1540,
                                              !.num_elements = 64, !.array_type = "curved"],
                     !.sources = <<ScenarioSource("target_1", "target")>>,
                     !.arrays = <<ScenarioArray("array_1", "curved", 64)>>,
                     !.metadata = @ \cup {"application", "imaging_depth"}]
      [] s.scenario_type = "tumor_ablation" ->
           [s EXCEPT !.name = "Focused Ultrasound Tumor Ablation",
                     !.description = "High-intensity focused ultrasound for tumor ablation therapy",
                     !.parameters = [@ EXCEPT !.frequency = 1000, !.propagation_speed = 1540,
                                              !.num_elements = 256, !.array_type = "circular"],
                     !.sources = <<ScenarioSource("focus", "target")>>,
                     !.arrays = <<ScenarioArray("array_1", "circular", 256)>>,
                     !.metadata = @ \cup {"application", "therapy_type", "focus_depth"}]
      [] s.scenario_type = "radar" ->
           [s EXCEPT !.name = "Phased Array Radar",
                     !.description = "Phased array radar for target detection and tracking",
                     !.parameters = [@ EXCEPT !.frequency = 10000000, !.num_elements = 16,
                                              !.array_type = "linear", !.steering_angle = 45],
                     !.sources = <<ScenarioSource("target_1", "target")>>,
                     !.arrays = <<ScenarioArray("array_1", "linear", 16)>>,
                     !.metadata = @ \cup {"application", "frequency_band", "range"}]
      [] s.scenario_type = "sonar" ->
           [s EXCEPT !.name = "Underwater Sonar Array",
                     !.description = "Underwater sonar array for object detection and imaging",
                     !.parameters = [@ EXCEPT !.frequency = 50, !.propagation_speed = 1500,
                                              !.num_elements = 32, !.array_type = "linear"],
                     !.sources = <<ScenarioSource("target_1", "target")>>,
                     !.arrays = <<ScenarioArray("array_1", "linear", 32)>>,
                     !.metadata = @ \cup {"application", "environment", "range"}]
      [] OTHER -> s

\* Scenario.__init__; uuid is the value uuid.uuid4() returns when it is asked
NewScenario(scenario_id, name, scenario_type, uuid) ==
    InitializeByType(
        [scenario_id |-> IF scenario_id.given /\ scenario_id.val # ""
                         THEN scenario_id.val ELSE uuid,
         name |-> name,
         scenario_type |-> scenario_type,
         description |-> "",
         parameters |-> DefaultParameters,
         sources |-> <<>>,
         arrays |-> <<>>,
         metadata |-> DefaultMetadata])

\* Scenario.add_source
ScenarioAddSource(s, source) == [s EXCEPT !.sources = Append(@, source)]

\* Scenario.remove_source: the first source with the id is removed
ScenarioRemoveSource(s, source_id) ==
    IF \E i \in 1..Len(s.sources) : s.sources[i].source_id = source_id
    THEN LET k == CHOOSE i \in 1..Len(s.sources) :
                      /\ s.sources[i].source_id = source_id
                      /\ \A j \in 1..(i - 1) : s.sources[j].source_id # source_id
         IN [obj |-> [s EXCEPT !.sources = [i \in 1..(Len(@) - 1) |->
                                               IF i < k THEN @[i] ELSE @[i + 1]]],
             value |-> TRUE]
    ELSE [obj |-> s, value |-> FALSE]

\* Scenario.add_array
ScenarioAddArray(s, array_config) == [s EXCEPT !.arrays = Append(@, array_config)]

\* Scenario.update_parameters(num_elements=...)
ScenarioUpdateParameters(s, num_elements) ==
    [s EXCEPT !.parameters = [@ EXCEPT !.num_elements = num_elements]]

\* Scenario.to_dict; save_to_file writes it as JSON and load_from_file reads
\* the same dictionary back
ScenarioToDict(s) ==
    [scenario_id |-> s.scenario_id,
     name |-> s.name,
     scenario_type |-> s.scenario_type,
     description |-> s.description,
     parameters |-> s.parameters,
     sources |-> s.sources,
     arrays |-> s.arrays,
     metadata |-> s.metadata]

\* Scenario.from_dict on a dictionary that has every key: the constructor runs
\* first, then the loaded sources are appended to the sources it created
ScenarioFromDict(scenario_dict, uuid) ==
    LET made == NewScenario(Some(scenario_dict.scenario_id), scenario_dict.name,
                            scenario_dict.scenario_type, uuid)
    IN [made EXCEPT !.description = scenario_dict.description,
                    !.parameters = scenario_dict.parameters,
                    !.sources = @ \o scenario_dict.sources,
                    !.arrays = scenario_dict.arrays,
                    !.metadata = scenario_dict.metadata]

----------------------------------------------------------------------------
(* Spec: every operation of one backend PhasedArray *)

Ret(op, arg, raised) == [op |-> op, arg |-> arg, raised |-> raised]
MRet(op, arg, raised, value) == [op |-> op, arg |-> arg, raised |-> raised, value |-> value]

\* a constructed PhasedArray
InitPA ==
    /\ \E n \in ElementCounts, g \in Geometries, o \in Orientations :
          /\ Representable(n, g, 0)
          /\ pa = NewPhasedArray(n, 1, g, 0, <<0, 0>>, o, "A")
    /\ pa_ret = Ret("__init__", <<>>, FALSE)

\* the PhasedArray object of the specifications that do not exercise it
IdlePA ==
    /\ pa = NewPhasedArray(1, 1, "linear", 0, <<0, 0>>, 0, "A")
    /\ pa_ret = Ret("__init__", <<>>, FALSE)

\* MultiArraySystem.__init__
InitMulti ==
    /\ mas = [arrays |-> <<>>, array_locations |-> <<>>]
    /\ mas_ret = Ret("__init__", <<>>, FALSE)

InitBF ==
    /\ bf = NewBeamformer(<<1>>, 1, <<20, 20>>, 2)
    /\ bf_ret = MRet("__init__", <<>>, FALSE, <<>>)

\* no request has been posted
InitEngine ==
    /\ engine = NewEngine
    /\ sim = [r \in 1..MaxRequests |-> [pc |-> "idle"]]

\* no array_model.PhasedArray has been constructed
InitModel ==
    /\ am = None
    /\ am_ret = Ret("none", <<>>, FALSE)

\* no ScenarioManager call has been made
InitScenario ==
    /\ scn_ret = [op |-> "none", arg |-> <<>>, value |-> <<>>]
    /\ store = NewScenarioManager

\* no Scenario object has been constructed
InitScenarioModel ==
    /\ scenario = None
    /\ scenario_ret = [op |-> "none", arg |-> <<>>, raised |-> FALSE, value |-> None]

\* config/scenarios is empty and no scenario call has been made on the engine
InitEngineScenario ==
    /\ eng_files = <<>>
    /\ eng_ret = [op |-> "none", arg |-> <<>>, raised |-> FALSE, value |-> None]

\* no element layout has been computed
InitGeo == geo = [impl |-> "none"]

\* nothing has been steered, no beam profile computed
InitSteer == steer = [impl |-> "none"]
InitProf == prof = [impl |-> "none"]

\* no task manager has been constructed
InitTasks == tm = [impl |-> "none"]
\* no scenarios.ScenarioManager has been constructed; the custom scenarios
\* directory does not exist
InitScenarios ==
    scns = [constructed |-> FALSE, dir_exists |-> FALSE, files |-> <<>>,
            ret |-> [op |-> "none"]]
\* no backend_pt2 BeamformingSimulator has been constructed
InitSimulator == sim2 = [constructed |-> FALSE]

\* a BeamformingEngine without arrays
InitUpdate == upd = [e |-> NewEngine, ret |-> [op |-> "__init__"]]

InitRest ==
    /\ InitScenarioModel /\ InitEngineScenario /\ InitGeo
    /\ InitSteer /\ InitProf /\ InitTasks /\ InitScenarios /\ InitSimulator
    /\ InitUpdate

Idle ==
    IdlePA /\ InitMulti /\ InitBF /\ InitEngine /\ InitModel /\ InitScenario /\ InitRest

Init ==
    InitPA /\ InitMulti /\ InitBF /\ InitEngine /\ InitModel /\ InitScenario /\ InitRest


\* PhasedArray(...): the object is replaced by a newly constructed one
PAConstruct ==
    /\ UNCHANGED nonPAVars
    /\ \E n \in ElementCounts, g \in Geometries, r \in Radii, o \in Orientations :
           /\ Representable(n, g, r)
           /\ pa' = NewPhasedArray(n, 1, g, r, <<0, 0>>, o, "A")
           /\ pa_ret' = Ret("__init__", <<>>, FALSE)

PAFromDict ==
    /\ UNCHANGED nonPAVars
    /\ \E n \in ElementCounts, g \in Geometries, r \in Radii :
       \E ps \in OptSeq(DictSeqs(n)), amps \in OptSeq(DictSeqs(n)) :
           /\ Representable(n, g, r)
           /\ LET res == FromDict(n, 1, g, r, <<0, 0>>, 0, "A", ps, amps)
              IN /\ pa' = res.obj
                 /\ pa_ret' = Ret("from_dict", <<>>, res.raised)

PAUpdateParameters ==
    /\ UNCHANGED nonPAVars
    /\ \E u \in UpdateArgs :
           LET res == UpdateParameters(pa, u[1], u[2], u[3], u[4], u[5], u[6])
           IN /\ Representable(res.obj.num_elements, res.obj.geometry, res.obj.curvature_radius)
              /\ pa' = res.obj
              /\ pa_ret' = Ret("update_parameters", <<>>, res.raised)

PASetSteeringAngle ==
    /\ UNCHANGED nonPAVars
    /\ \E angle \in SteeringAngles, f \in Frequencies, c \in Speeds :
           /\ pa.geometry = "linear" \/ angle \in RationalCosAngles
           /\ LET res == SetSteeringAngle(pa, angle, f, c)
              IN /\ pa' = res.obj
                 /\ pa_ret' = Ret("set_steering_angle", <<angle, f, c>>, res.raised)

PASetFocusPoint ==
    /\ UNCHANGED nonPAVars
    /\ \E focus \in FocusPoints, f \in Frequencies, c \in Speeds :
           /\ FocusExact(pa, focus)
           /\ LET res == SetFocusPoint(pa, focus, f, c)
              IN /\ pa' = res.obj
                 /\ pa_ret' = Ret("set_focus_point", <<focus, f, c>>, res.raised)

PASetCustomPhases ==
    /\ UNCHANGED nonPAVars
    /\ \E phases \in CustomSeqs :
           LET res == SetCustomPhases(pa, phases)
           IN /\ pa' = res.obj
              /\ pa_ret' = Ret("set_custom_phases", phases, res.raised)

PASetUniformPhase ==
    /\ UNCHANGED nonPAVars
    /\ \E phase \in UniformPhases :
           LET res == SetUniformPhase(pa, phase)
           IN /\ pa' = res.obj
              /\ pa_ret' = Ret("set_uniform_phase", phase, res.raised)

PASetCustomAmplitudes ==
    /\ UNCHANGED nonPAVars
    /\ \E amplitudes \in CustomSeqs :
           LET res == SetCustomAmplitudes(pa, amplitudes)
           IN /\ pa' = res.obj
              /\ pa_ret' = Ret("set_custom_amplitudes", amplitudes, res.raised)

Next ==
    \/ PAConstruct
    \/ PAFromDict
    \/ PAUpdateParameters
    \/ PASetSteeringAngle
    \/ PASetFocusPoint
    \/ PASetCustomPhases
    \/ PASetUniformPhase
    \/ PASetCustomAmplitudes

Spec == Init /\ [][Next]_vars

----------------------------------------------------------------------------
(* backend MultiArraySystem: src/backend/core/beamforming/phased_array.py *)

\* frequency and speed that compute_combined_pattern steers with (1e9 Hz and
\* 3e8 m/s, both divided by 1e8)
PatternFrequency == 10
PatternSpeed == 3

\* MultiArraySystem.add_array
MASAddArray(m, phased_array, location) ==
    Ok([m EXCEPT !.arrays = Append(@, phased_array),
                 !.array_locations = Append(@, location)])

\* list.pop(index) for 0 <= index < len (index is 0-based)
Pop(s, index) == [k \in 1..(Len(s) - 1) |-> IF k <= index THEN s[k] ELSE s[k + 1]]

\* MultiArraySystem.remove_array
MASRemoveArray(m, index) ==
    IF 0 <= index /\ index < Len(m.arrays)
    THEN Ok([m EXCEPT !.arrays = Pop(@, index), !.array_locations = Pop(@, index)])
    ELSE Ok(m)

\* the arrays after the loop body's array.set_steering_angle(steering_angle, 1e9, 3e8)
\* has run for every (array, steering_angle) pair
SteerEach(arrays, steering_angles) ==
    [k \in 1..Len(arrays) |->
        SetSteeringAngle(arrays[k], steering_angles[k], PatternFrequency, PatternSpeed).obj]

\* the terms the combined factor sums, per array: zip(positions, phases) gives
\* one term exp(j(k * x * sin(angle) + phase)) per element
PatternTerms(arrays) ==
    [k \in 1..Len(arrays) |->
        LET a == arrays[k]
            cnt == IF Len(a.element_positions) <= Len(a.phase_shifts)
                   THEN Len(a.element_positions) ELSE Len(a.phase_shifts)
        IN [i \in 1..cnt |-> [x |-> a.element_positions[i][1], phase |-> a.phase_shifts[i]]]]

\* variant that steers before it compares the counts; C7 tells it from the code
ComputeCombinedPatternCheckLast(m, steering_angles) ==
    LET cnt == IF Len(m.arrays) <= Len(steering_angles)
               THEN Len(m.arrays) ELSE Len(steering_angles)
        steered == [k \in 1..Len(m.arrays) |->
                       IF k <= cnt
                       THEN SetSteeringAngle(m.arrays[k], steering_angles[k],
                                             PatternFrequency, PatternSpeed).obj
                       ELSE m.arrays[k]]
    IN IF Len(m.arrays) # Len(steering_angles)
       THEN [obj |-> [m EXCEPT !.arrays = steered], raised |-> TRUE, value |-> <<>>]
       ELSE [obj |-> [m EXCEPT !.arrays = steered], raised |-> FALSE,
             value |-> PatternTerms(steered)]

\* MultiArraySystem.compute_combined_pattern: the system afterwards, whether
\* it raised, and the terms of the returned factor
ComputeCombinedPattern(m, steering_angles) ==
    IF Len(m.arrays) # Len(steering_angles)
    THEN [obj |-> m, raised |-> TRUE, value |-> <<>>]        \* ValueError
    ELSE LET steered == SteerEach(m.arrays, steering_angles)
         IN [obj |-> [m EXCEPT !.arrays = steered], raised |-> FALSE,
             value |-> PatternTerms(steered)]

----------------------------------------------------------------------------
(* SpecMulti: a MultiArraySystem, the arrays it holds, and its callers *)

SteeringLists ==
    UNION { [1..len -> SteeringAngles] : len \in 0..(MaxArrays + 1) }

MASAdd ==
    /\ UNCHANGED nonMultiVars
    /\ Len(mas.arrays) < MaxArrays
    /\ \E n \in ElementCounts :
           LET res == MASAddArray(mas, NewPhasedArray(n, 1, "linear", 0, <<0, 0>>, 0, "A"), <<0, 0>>)
           IN /\ mas' = res.obj
              /\ mas_ret' = MRet("add_array", <<>>, res.raised, <<>>)

MASRemove ==
    /\ UNCHANGED nonMultiVars
    /\ \E index \in (0 - 1)..MaxArrays :
           LET res == MASRemoveArray(mas, index)
           IN /\ mas' = res.obj
              /\ mas_ret' = MRet("remove_array", index, res.raised, <<>>)

\* a caller assigns custom phases to one of the held arrays
MASSetCustomPhases ==
    /\ UNCHANGED nonMultiVars
    /\ \E k \in 1..Len(mas.arrays), phases \in CustomSeqs :
           LET res == SetCustomPhases(mas.arrays[k], phases)
           IN /\ mas' = [mas EXCEPT !.arrays[k] = res.obj]
              /\ mas_ret' = MRet("set_custom_phases", phases, res.raised, <<>>)

MASComputeCombinedPattern ==
    /\ UNCHANGED nonMultiVars
    /\ \E steering_angles \in SteeringLists :
           LET res == ComputeCombinedPattern(mas, steering_angles)
           IN /\ mas' = res.obj
              /\ mas_ret' = MRet("compute_combined_pattern", steering_angles,
                                 res.raised, res.value)

NextMulti ==
    \/ MASAdd
    \/ MASRemove
    \/ MASSetCustomPhases
    \/ MASComputeCombinedPattern

SpecMulti == Idle /\ [][NextMulti]_vars

----------------------------------------------------------------------------
(* SpecBeamformer: a Beamformer and its callers *)

BFFrequencyLists == {<<1>>, <<1, 2>>}
BFFieldSizes == {<<10, 10>>}
BFResolutions == {2, 3}
BFArrayIds == {"A", "B"}

BAddArray ==
    /\ UNCHANGED nonBFVars
    /\ Len(bf.arrays) < MaxBFArrays
    /\ \E n \in ElementCounts, id \in {"A"} :
           LET res == BFAddArray(bf, NewPhasedArray(n, 1, "linear", 0, <<0, 0>>, 90, id))
           IN /\ bf' = res.obj
              /\ bf_ret' = MRet("add_array", id, res.raised, res.value)

BRemoveArray ==
    /\ UNCHANGED nonBFVars
    /\ \E id \in BFArrayIds :
           LET res == BFRemoveArray(bf, id)
           IN /\ bf' = res.obj
              /\ bf_ret' = MRet("remove_array", id, res.raised, res.value)

BClearArrays ==
    /\ UNCHANGED nonBFVars
    /\ LET res == BFClearArrays(bf)
       IN /\ bf' = res.obj
          /\ bf_ret' = MRet("clear_arrays", <<>>, res.raised, res.value)

BSetFrequencies ==
    /\ UNCHANGED nonBFVars
    /\ \E fs \in BFFrequencyLists :
           LET res == BFSetFrequencies(bf, fs)
           IN /\ bf' = res.obj
              /\ bf_ret' = MRet("set_frequencies", fs, res.raised, res.value)

BSetSpeed ==
    /\ UNCHANGED nonBFVars
    /\ \E sp \in Speeds :
           LET res == BFSetSpeed(bf, sp)
           IN /\ bf' = res.obj
              /\ bf_ret' = MRet("set_speed", sp, res.raised, res.value)

BUpdateFieldParameters ==
    /\ UNCHANGED nonBFVars
    /\ \E fsz \in OptSeq(BFFieldSizes), r \in Opt(BFResolutions) :
           LET res == BFUpdateFieldParameters(bf, fsz, r)
           IN /\ bf' = res.obj
              /\ bf_ret' = MRet("update_field_parameters", <<fsz, r>>, res.raised, res.value)

BSteerAllArrays ==
    /\ UNCHANGED nonBFVars
    /\ \E angle \in SteeringAngles :
           LET res == BFSteerAllArrays(bf, angle)
           IN /\ bf' = res.obj
              /\ bf_ret' = MRet("steer_all_arrays", angle, res.raised, res.value)

BFocusAllArrays ==
    /\ UNCHANGED nonBFVars
    /\ \E focus \in FocusPoints :
           /\ \A k \in 1..Len(bf.arrays) : FocusExact(bf.arrays[k], focus)
           /\ LET res == BFFocusAllArrays(bf, focus)
              IN /\ bf' = res.obj
                 /\ bf_ret' = MRet("focus_all_arrays", focus, res.raised, res.value)

BComputeInterferenceField ==
    /\ UNCHANGED nonBFVars
    /\ LET res == BFComputeInterferenceField(bf)
       IN /\ bf' = res.obj
          /\ bf_ret' = MRet("compute_interference_field", <<>>, res.raised, res.value)

BGetIntensityField ==
    /\ UNCHANGED nonBFVars
    /\ LET res == BFGetIntensityField(bf)
       IN /\ bf' = res.obj
          /\ bf_ret' = MRet("get_intensity_field", <<>>, res.raised, res.value)

BGetPhaseField ==
    /\ UNCHANGED nonBFVars
    /\ LET res == BFGetPhaseField(bf)
       IN /\ bf' = res.obj
          /\ bf_ret' = MRet("get_phase_field", <<>>, res.raised, res.value)

NextBeamformer ==
    \/ BAddArray
    \/ BRemoveArray
    \/ BClearArrays
    \/ BSetFrequencies
    \/ BSetSpeed
    \/ BUpdateFieldParameters
    \/ BSteerAllArrays
    \/ BFocusAllArrays
    \/ BComputeInterferenceField
    \/ BGetIntensityField
    \/ BGetPhaseField

SpecBeamformer == Idle /\ [][NextBeamformer]_vars

----------------------------------------------------------------------------
(* SpecEngine: POST /simulate, POST /steer and POST /clear of backend2      *)
(* (src/backend2/api/beamforming/routes.py). Every POST /simulate stores a *)
(* task in the routes' task_manager.tasks and starts a run_simulation job  *)
(* on a worker thread of the global AsyncTaskManager; the jobs and the     *)
(* routes share the module-level engine and the task table without a lock, *)
(* and a thread switch can fall between any two of their accesses. Each    *)
(* request slot serves one request.                                        *)

\* ArrayConfig.dict(): every key is present; delays is None or has
\* num_elements entries (validate_delays), amplitudes likewise
ArrayConfigs ==
    { [array_id |-> None, type |-> "linear", num_elements |-> n, spacing |-> 1,
       position |-> <<0, 0>>, orientation |-> 0, curvature |-> 0,
       delays |-> Some(Zeros(n)), amplitudes |-> Some(Ones(n)), enabled |-> TRUE]
      : n \in ElementCounts }
    \cup
    { [array_id |-> None, type |-> "linear", num_elements |-> 1, spacing |-> 1,
       position |-> <<0, 0>>, orientation |-> 0, curvature |-> 0,
       delays |-> None, amplitudes |-> Some(Ones(1)), enabled |-> TRUE] }

\* SourceConfig.dict()
SourceConfigs ==
    { [source_id |-> None, type |-> "transmitter", position |-> <<1, 1>>, frequency |-> 2,
       amplitude |-> 1, phase |-> 0, orientation |-> 0, enabled |-> TRUE] }

\* the array configurations of the simulation requests: two elements with
\* delays, or one element with delays left None
SimArrayConfigs ==
    { c \in ArrayConfigs : c.num_elements = MaxN \/ ~c.delays.given }

\* SimulationRequest: at least one array, any number of sources
SimulationRequests ==
    { [arrays |-> as, sources |-> ss, frequencies |-> <<2>>, steering_angle |-> 0,
       grid_size |-> Some(50), grid_range |-> Some(10), include_interference |-> TRUE]
      : as \in UNION { [1..len -> SimArrayConfigs] : len \in 1..MaxSimArrays },
        ss \in UNION { [1..len -> SourceConfigs] : len \in 0..1 } }

\* steering angles of POST /steer
SteerRequestAngles == {30}

\* the entry of task_manager.tasks a job no longer has after tasks.clear()
NoTask(s) ==
    [s EXCEPT !.status = "absent", !.progress = 0, !.started_at = FALSE,
              !.completed_at = FALSE, !.result = None, !.error = "none"]

\* run_simulation, an exception inside the try: the except branch is next
SimRaise(s, exc) == [s EXCEPT !.pc = "failing", !.exc = exc]

\* task_manager.tasks[task_id]['progress'] = ... inside the try (progress in
\* tenths): a KeyError when the entry is absent, else the job goes on at
\* next_pc
SimProgress(s, progress, next_pc) ==
    IF s.status = "absent" THEN SimRaise(s, "KeyError")
    ELSE [s EXCEPT !.progress = progress, !.pc = next_pc]

\* simulate_beamforming: the request is parsed, the task stored as pending and
\* run_simulation submitted
Simulate(r) ==
    /\ UNCHANGED <<nonEngineVars, engine>>
    /\ sim[r].pc = "idle"
    /\ \E request \in SimulationRequests :
           sim' = [sim EXCEPT ![r] = [pc |-> "pending", op |-> "simulate",
                                      status |-> "pending", progress |-> 0,
                                      started_at |-> FALSE, completed_at |-> FALSE,
                                      request |-> request, i |-> 0, computed |-> None,
                                      beam_pattern |-> None, interference_map |-> None,
                                      array_positions |-> <<>>, source_positions |-> <<>>,
                                      num_arrays |-> 0, num_sources |-> 0, result |-> None,
                                      exc |-> "none", error |-> "none"]]

\* POST /steer: steer_beam of the route calls beamforming_engine.steer_beam,
\* whose first statement tests "if not self.frequencies"
Steer(r) ==
    /\ UNCHANGED <<nonEngineVars, engine>>
    /\ sim[r].pc = "idle"
    /\ \E steering_angle \in SteerRequestAngles :
           sim' = [sim EXCEPT ![r] = [pc |-> IF engine.frequencies = <<>>
                                             THEN "steer_default" ELSE "steer_frequencies",
                                      op |-> "steer",
                                      request |-> [frequencies |-> <<>>,
                                                   steering_angle |-> steering_angle,
                                                   grid_size |-> None, grid_range |-> None],
                                      computed |-> None, beam_pattern |-> None,
                                      response |-> 0]]

\* steer_beam: self.frequencies = [self.config.get('DEFAULT_FREQUENCY', 2.4e9)]
SteerDefaultFrequency(r) ==
    /\ UNCHANGED nonEngineVars
    /\ sim[r].pc = "steer_default"
    /\ engine' = [engine EXCEPT !.frequencies = <<EngineDefaultFrequency>>]
    /\ sim' = [sim EXCEPT ![r].pc = "steer_frequencies"]

\* steer_beam: self.frequencies is read again as the argument of
\* compute_beam_pattern(self.frequencies, steering_angle)
SteerReadFrequencies(r) ==
    /\ UNCHANGED <<nonEngineVars, engine>>
    /\ sim[r].pc = "steer_frequencies"
    /\ sim' = [sim EXCEPT ![r].request.frequencies = engine.frequencies,
                          ![r].pc = "beam_pattern"]

\* POST /clear: clear_simulation of the route calls
\* beamforming_engine.clear_simulation(), whose first statement is
\* self.arrays = []
ClearSimulation(r) ==
    /\ UNCHANGED nonEngineVars
    /\ sim[r].pc = "idle"
    /\ engine' = [engine EXCEPT !.arrays = <<>>]
    /\ sim' = [sim EXCEPT ![r] = [pc |-> "engine_sources", op |-> "clear", response |-> 0]]

\* clear_simulation: self.sources = []
ClearSimulationSources(r) ==
    /\ UNCHANGED nonEngineVars
    /\ sim[r].pc = "engine_sources"
    /\ engine' = [engine EXCEPT !.sources = <<>>]
    /\ sim' = [sim EXCEPT ![r].pc = "engine_frequencies"]

\* clear_simulation: self.frequencies = []
ClearSimulationFrequencies(r) ==
    /\ UNCHANGED nonEngineVars
    /\ sim[r].pc = "engine_frequencies"
    /\ engine' = [engine EXCEPT !.frequencies = <<>>]
    /\ sim' = [sim EXCEPT ![r].pc = "engine_beam_pattern"]

\* clear_simulation: self.beam_pattern = None
ClearSimulationBeamPattern(r) ==
    /\ UNCHANGED nonEngineVars
    /\ sim[r].pc = "engine_beam_pattern"
    /\ engine' = [engine EXCEPT !.beam_pattern = None]
    /\ sim' = [sim EXCEPT ![r].pc = "engine_interference_map"]

\* clear_simulation: self.interference_map = None (and the results cache)
ClearSimulationInterferenceMap(r) ==
    /\ UNCHANGED nonEngineVars
    /\ sim[r].pc = "engine_interference_map"
    /\ engine' = [engine EXCEPT !.interference_map = None]
    /\ sim' = [sim EXCEPT ![r].pc = "clear_tasks"]

\* the route's task_manager.tasks.clear(): every simulation task stored so
\* far leaves the table; the response is 200
ClearSimulationTasks(r) ==
    /\ UNCHANGED <<nonEngineVars, engine>>
    /\ sim[r].pc = "clear_tasks"
    /\ sim' = [s \in 1..MaxRequests |->
                  IF s = r THEN [sim[r] EXCEPT !.pc = "cleared", !.response = 200]
                  ELSE IF sim[s].pc # "idle" /\ sim[s].op = "simulate" THEN NoTask(sim[s])
                  ELSE sim[s]]

\* run_simulation, "Update task status":
\* task_manager.tasks[task_id]['status'] = 'running' (a KeyError when POST
\* /clear has removed the entry)
SimStart(r) ==
    /\ UNCHANGED <<nonEngineVars, engine>>
    /\ sim[r].pc = "pending"
    /\ sim' = [sim EXCEPT ![r] = IF sim[r].status = "absent"
                                 THEN SimRaise(sim[r], "KeyError")
                                 ELSE [sim[r] EXCEPT !.pc = "started_at", !.status = "running"]]

\* task_manager.tasks[task_id]['started_at'] = datetime.now()
SimStartedAt(r) ==
    /\ UNCHANGED <<nonEngineVars, engine>>
    /\ sim[r].pc = "started_at"
    /\ sim' = [sim EXCEPT ![r] = IF sim[r].status = "absent"
                                 THEN SimRaise(sim[r], "KeyError")
                                 ELSE [sim[r] EXCEPT !.pc = "progress_01", !.started_at = TRUE]]

\* task_manager.tasks[task_id]['progress'] = 0.1
SimProgress01(r) ==
    /\ UNCHANGED <<nonEngineVars, engine>>
    /\ sim[r].pc = "progress_01"
    /\ sim' = [sim EXCEPT ![r] = SimProgress(sim[r], 1, "clear_arrays")]

\* beamforming_engine.arrays = []
SimClearArrays(r) ==
    /\ UNCHANGED nonEngineVars
    /\ sim[r].pc = "clear_arrays"
    /\ engine' = [engine EXCEPT !.arrays = <<>>]
    /\ sim' = [sim EXCEPT ![r].pc = "clear_sources"]

\* beamforming_engine.sources = []
SimClearSources(r) ==
    /\ UNCHANGED nonEngineVars
    /\ sim[r].pc = "clear_sources"
    /\ engine' = [engine EXCEPT !.sources = <<>>]
    /\ sim' = [sim EXCEPT ![r].pc = "add_arrays", ![r].i = 0]

\* one iteration of "for array_config in sim_request.arrays"
SimAddArray(r) ==
    /\ UNCHANGED nonEngineVars
    /\ sim[r].pc = "add_arrays"
    /\ sim[r].i < Len(sim[r].request.arrays)
    /\ engine' = EngineAddArray(engine, sim[r].request.arrays[sim[r].i + 1])
    /\ sim' = [sim EXCEPT ![r].i = @ + 1,
                          ![r].pc = IF sim[r].i + 1 < Len(sim[r].request.arrays)
                                    THEN "add_arrays"
                                    ELSE IF sim[r].request.sources # <<>>
                                         THEN "add_sources" ELSE "progress_03"]

\* one iteration of "for source_config in sim_request.sources"
SimAddSource(r) ==
    /\ UNCHANGED nonEngineVars
    /\ sim[r].pc = "add_sources"
    /\ LET k == sim[r].i - Len(sim[r].request.arrays)
       IN /\ engine' = EngineAddSource(engine, sim[r].request.sources[k + 1])
          /\ sim' = [sim EXCEPT ![r].i = @ + 1,
                                ![r].pc = IF k + 1 < Len(sim[r].request.sources)
                                          THEN "add_sources" ELSE "progress_03"]

\* task_manager.tasks[task_id]['progress'] = 0.3
SimProgress03(r) ==
    /\ UNCHANGED <<nonEngineVars, engine>>
    /\ sim[r].pc = "progress_03"
    /\ sim' = [sim EXCEPT ![r] = SimProgress(sim[r], 3, "beam_pattern")]

\* compute_beam_pattern, "Process each array" to "Normalize magnitude": the
\* loop over self.arrays (a list that only grows while it is the engine's)
\* and the pattern it gives; an exception leaves the try of run_simulation,
\* and makes the response of POST /steer 500
SimComputeBeamPattern(r) ==
    /\ UNCHANGED <<nonEngineVars, engine>>
    /\ sim[r].pc = "beam_pattern"
    /\ LET q == sim[r].request
           res == EngineBeamPatternField(engine, q.frequencies, q.steering_angle,
                                         q.grid_size, q.grid_range)
       IN sim' = IF res.raised
                 THEN IF sim[r].op = "steer"
                      THEN [sim EXCEPT ![r].pc = "steered", ![r].response = 500]
                      ELSE [sim EXCEPT ![r] = SimRaise(sim[r], "compute_beam_pattern")]
                 ELSE [sim EXCEPT ![r].computed = Some(res.value),
                                  ![r].pc = "beam_store"]

\* compute_beam_pattern, "Store results": self.beam_pattern = {...}
SimStoreBeamPattern(r) ==
    /\ UNCHANGED nonEngineVars
    /\ sim[r].pc = "beam_store"
    /\ engine' = EngineStoreBeamPattern(engine, sim[r].computed.val)
    /\ sim' = [sim EXCEPT ![r].computed = None, ![r].pc = "beam_return"]

\* compute_beam_pattern, `return self.beam_pattern`: the attribute is read
\* again. steer_beam and its route get it: a pattern (a dict of lists) goes
\* to plot_beam_pattern, which raises TypeError at magnitude + 1e-10, the
\* response being 500; None is returned with 200
SimReturnBeamPattern(r) ==
    /\ UNCHANGED <<nonEngineVars, engine>>
    /\ sim[r].pc = "beam_return"
    /\ sim' = IF sim[r].op = "steer"
              THEN [sim EXCEPT ![r].beam_pattern = engine.beam_pattern,
                               ![r].pc = "steered",
                               ![r].response = IF engine.beam_pattern.given THEN 500 ELSE 200]
              ELSE [sim EXCEPT ![r].beam_pattern = engine.beam_pattern,
                               ![r].pc = "progress_06"]

\* task_manager.tasks[task_id]['progress'] = 0.6, then
\* "if sim_request.include_interference and sim_request.sources"
SimProgress06(r) ==
    /\ UNCHANGED <<nonEngineVars, engine>>
    /\ sim[r].pc = "progress_06"
    /\ sim' = [sim EXCEPT ![r] =
                  SimProgress(sim[r], 6, IF sim[r].request.include_interference
                                         /\ sim[r].request.sources # <<>>
                                      THEN "interference" ELSE "progress_08")]

\* beamforming_engine.compute_interference_map(sources=<the request's>, ...)
\* up to "Store results": self.interference_map = {...}
SimComputeInterferenceMap(r) ==
    /\ UNCHANGED nonEngineVars
    /\ sim[r].pc = "interference"
    /\ LET q == sim[r].request
       IN engine' = [engine EXCEPT !.interference_map =
                         Some(EngineInterferenceField(engine, q.sources,
                                                      q.grid_size.val, q.grid_range.val))]
    /\ sim' = [sim EXCEPT ![r].pc = "interference_return"]

\* compute_interference_map, `return self.interference_map`
SimReturnInterferenceMap(r) ==
    /\ UNCHANGED <<nonEngineVars, engine>>
    /\ sim[r].pc = "interference_return"
    /\ sim' = [sim EXCEPT ![r].interference_map = engine.interference_map,
                          ![r].pc = "progress_08"]

\* task_manager.tasks[task_id]['progress'] = 0.8 and "Generate
\* visualizations": a beam pattern that is not None goes to plot_beam_pattern
\* and an interference map that is not None to plot_interference_map; both
\* get the lists the engine stored (.tolist()) and raise TypeError at
\* `magnitude + 1e-10` / `interference + 1e-10`
SimProgress08(r) ==
    /\ UNCHANGED <<nonEngineVars, engine>>
    /\ sim[r].pc = "progress_08"
    /\ sim' = [sim EXCEPT ![r] =
                  IF sim[r].status = "absent" THEN SimRaise(sim[r], "KeyError")
                  ELSE IF sim[r].beam_pattern.given
                       THEN SimRaise([sim[r] EXCEPT !.progress = 8], "plot_beam_pattern")
                  ELSE IF sim[r].interference_map.given
                       THEN SimRaise([sim[r] EXCEPT !.progress = 8], "plot_interference_map")
                  ELSE [sim[r] EXCEPT !.progress = 8, !.pc = "positions"]]

\* array_positions = [arr['element_positions'].tolist() for arr in
\* beamforming_engine.arrays], then plot_array_geometry(array_positions),
\* which raises TypeError at positions[:, 0] for the first array that has
\* elements: it returns for no arrays only
SimArrayPositions(r) ==
    /\ UNCHANGED <<nonEngineVars, engine>>
    /\ sim[r].pc = "positions"
    /\ LET array_positions == [k \in 1..Len(engine.arrays) |-> engine.arrays[k].element_positions]
       IN sim' = [sim EXCEPT ![r] =
                     IF \E k \in 1..Len(array_positions) : Len(array_positions[k]) > 0
                     THEN SimRaise([sim[r] EXCEPT !.array_positions = array_positions],
                                   "plot_array_geometry")
                     ELSE [sim[r] EXCEPT !.array_positions = array_positions,
                                         !.pc = "progress_09"]]

\* task_manager.tasks[task_id]['progress'] = 0.9
SimProgress09(r) ==
    /\ UNCHANGED <<nonEngineVars, engine>>
    /\ sim[r].pc = "progress_09"
    /\ sim' = [sim EXCEPT ![r] = SimProgress(sim[r], 9, "result")]

\* "Prepare result", 'source_positions': the engine's sources are read
SimSourcePositions(r) ==
    /\ UNCHANGED <<nonEngineVars, engine>>
    /\ sim[r].pc = "result"
    /\ sim' = [sim EXCEPT ![r].source_positions =
                              [k \in 1..Len(engine.sources) |-> engine.sources[k].position],
                          ![r].pc = "summary"]

\* get_simulation_summary, 'num_arrays': len(self.arrays)
SimSummaryArrays(r) ==
    /\ UNCHANGED <<nonEngineVars, engine>>
    /\ sim[r].pc = "summary"
    /\ sim' = [sim EXCEPT ![r].num_arrays = Len(engine.arrays),
                          ![r].pc = "summary_sources"]

\* get_simulation_summary, 'num_sources': len(self.sources)
SimSummarySources(r) ==
    /\ UNCHANGED <<nonEngineVars, engine>>
    /\ sim[r].pc = "summary_sources"
    /\ sim' = [sim EXCEPT ![r].num_sources = Len(engine.sources),
                          ![r].pc = "store_result"]

\* "Update task": task_manager.tasks[task_id]['status'] = 'completed' (a
\* KeyError when the entry is absent)
SimComplete(r) ==
    /\ UNCHANGED <<nonEngineVars, engine>>
    /\ sim[r].pc = "store_result"
    /\ sim' = [sim EXCEPT ![r] = IF sim[r].status = "absent"
                                 THEN SimRaise(sim[r], "KeyError")
                                 ELSE [sim[r] EXCEPT !.pc = "progress_10",
                                                     !.status = "completed"]]

\* task_manager.tasks[task_id]['progress'] = 1.0
SimProgress10(r) ==
    /\ UNCHANGED <<nonEngineVars, engine>>
    /\ sim[r].pc = "progress_10"
    /\ sim' = [sim EXCEPT ![r] = SimProgress(sim[r], 10, "completed_at")]

\* task_manager.tasks[task_id]['completed_at'] = datetime.now()
SimCompletedAt(r) ==
    /\ UNCHANGED <<nonEngineVars, engine>>
    /\ sim[r].pc = "completed_at"
    /\ sim' = [sim EXCEPT ![r] = IF sim[r].status = "absent"
                                 THEN SimRaise(sim[r], "KeyError")
                                 ELSE [sim[r] EXCEPT !.pc = "task_result",
                                                     !.completed_at = TRUE]]

\* task_manager.tasks[task_id]['result'] = result
SimStoreResult(r) ==
    /\ UNCHANGED <<nonEngineVars, engine>>
    /\ sim[r].pc = "task_result"
    /\ sim' = [sim EXCEPT ![r] =
           IF sim[r].status = "absent" THEN SimRaise(sim[r], "KeyError")
           ELSE [sim[r] EXCEPT
                    !.result = Some(
                        [beam_pattern |-> sim[r].beam_pattern,
                         interference_map |-> sim[r].interference_map,
                         array_positions |-> sim[r].array_positions,
                         source_positions |-> sim[r].source_positions,
                         num_arrays |-> sim[r].num_arrays,
                         num_sources |-> sim[r].num_sources]),
                    !.pc = "emit"]]

\* emit('simulation_complete', ...), inside the try: it returns and the job
\* returns its result, or it raises
SimEmit(r) ==
    /\ UNCHANGED <<nonEngineVars, engine>>
    /\ sim[r].pc = "emit"
    /\ \E raises \in BOOLEAN :
           sim' = [sim EXCEPT ![r] = IF raises THEN SimRaise(sim[r], "emit")
                                     ELSE [sim[r] EXCEPT !.pc = "done"]]

\* the except branch of run_simulation:
\* task_manager.tasks[task_id]['status'] = 'failed', the result staying as it
\* is; when the entry is absent the write raises KeyError, which leaves the
\* job with nothing written
SimFail(r) ==
    /\ UNCHANGED <<nonEngineVars, engine>>
    /\ sim[r].pc = "failing"
    /\ sim' = [sim EXCEPT ![r] =
                  IF sim[r].status = "absent" THEN [sim[r] EXCEPT !.pc = "done"]
                  ELSE [sim[r] EXCEPT !.pc = "fail_error", !.status = "failed"]]

\* the except branch: task_manager.tasks[task_id]['error'] = str(e) (a
\* KeyError that leaves the job when the entry is absent)
SimFailError(r) ==
    /\ UNCHANGED <<nonEngineVars, engine>>
    /\ sim[r].pc = "fail_error"
    /\ sim' = [sim EXCEPT ![r] =
                  IF sim[r].status = "absent" THEN [sim[r] EXCEPT !.pc = "done"]
                  ELSE [sim[r] EXCEPT !.pc = "fail_completed_at", !.error = sim[r].exc]]

\* the except branch: task_manager.tasks[task_id]['completed_at'] =
\* datetime.now() (a KeyError when the entry is absent), then "raise": the
\* exception leaves the job either way
SimFailCompletedAt(r) ==
    /\ UNCHANGED <<nonEngineVars, engine>>
    /\ sim[r].pc = "fail_completed_at"
    /\ sim' = [sim EXCEPT ![r] =
                  IF sim[r].status = "absent" THEN [sim[r] EXCEPT !.pc = "done"]
                  ELSE [sim[r] EXCEPT !.pc = "done", !.completed_at = TRUE]]

NextEngine ==
    \E r \in 1..MaxRequests :
        \/ Simulate(r)
        \/ Steer(r)
        \/ SteerDefaultFrequency(r)
        \/ SteerReadFrequencies(r)
        \/ ClearSimulation(r)
        \/ ClearSimulationSources(r)
        \/ ClearSimulationFrequencies(r)
        \/ ClearSimulationBeamPattern(r)
        \/ ClearSimulationInterferenceMap(r)
        \/ ClearSimulationTasks(r)
        \/ SimStart(r)
        \/ SimStartedAt(r)
        \/ SimProgress01(r)
        \/ SimClearArrays(r)
        \/ SimClearSources(r)
        \/ SimAddArray(r)
        \/ SimAddSource(r)
        \/ SimProgress03(r)
        \/ SimComputeBeamPattern(r)
        \/ SimStoreBeamPattern(r)
        \/ SimReturnBeamPattern(r)
        \/ SimProgress06(r)
        \/ SimComputeInterferenceMap(r)
        \/ SimReturnInterferenceMap(r)
        \/ SimProgress08(r)
        \/ SimArrayPositions(r)
        \/ SimProgress09(r)
        \/ SimSourcePositions(r)
        \/ SimSummaryArrays(r)
        \/ SimSummarySources(r)
        \/ SimComplete(r)
        \/ SimProgress10(r)
        \/ SimCompletedAt(r)
        \/ SimStoreResult(r)
        \/ SimEmit(r)
        \/ SimFail(r)
        \/ SimFailError(r)
        \/ SimFailCompletedAt(r)

SpecEngine == Idle /\ [][NextEngine]_vars

----------------------------------------------------------------------------
(* SpecModel: one backend2 array_model.PhasedArray and its callers *)

ArrayTypes == {"linear", "curved", "circular", "rectangular"}
ModelFrequencies == {0 - 1, 0, 3, DefaultFrequency}
DelayLists == CustomSeqs

AMConstruct ==
    /\ UNCHANGED nonModelVars
    /\ \E t \in ArrayTypes, n \in ElementCounts, sp \in Spacings2 :
           LET res == NewArrayModel("array_0", t, n, sp, <<0, 0>>, 0, 0)
           IN /\ am' = res.obj
              /\ am_ret' = Ret("__init__", <<t, n, sp>>, res.raised)

AMSetFreq ==
    /\ UNCHANGED nonModelVars
    /\ am.given
    /\ \E f \in ModelFrequencies :
           LET res == AMSetFrequency(am.val, f)
           IN /\ am' = Some(res.obj)
              /\ am_ret' = Ret("set_frequency", f, res.raised)

AMApply ==
    /\ UNCHANGED nonModelVars
    /\ am.given
    /\ \E delays \in DelayLists :
           LET res == AMApplyDelays(am.val, delays)
           IN /\ am' = Some(res.obj)
              /\ am_ret' = Ret("apply_delays", delays, res.raised)

ModelSteeringAngles == {0, 30, 0 - 90}

AMSteer ==
    /\ UNCHANGED nonModelVars
    /\ am.given
    /\ \E steering_angle \in ModelSteeringAngles :
           /\ SteeringRepresentable(am.val, steering_angle)
           /\ LET res == AMApplySteering(am.val, steering_angle)
              IN /\ am' = Some(res.obj)
                 /\ am_ret' = Ret("apply_steering", steering_angle, res.raised)

\* the dictionaries given to from_dict: with or without 'frequency', and
\* without 'elements', with none, or with one element at (1, 0) that carries
\* a delay (the point is written as the centre of a circle of radius 0)
ModelDicts ==
    [array_id : {"array_0"}, array_type : {"circular", "linear"},
     num_elements : ElementCounts, spacing : {1}, position : {<<0, 0>>},
     orientation : {0}, curvature : {0},
     frequency : {None, Some(3)},
     elements : {None, Some(<<>>),
                 Some(<<[position |-> [center |-> <<1, 0>>, radius_2pi |-> 0,
                                       turn |-> <<0, 1>>],
                         amplitude |-> 1,
                         phase |-> DelayPhase(3, 2), delay |-> 2]>>)}]

AMFromDictCall ==
    /\ UNCHANGED nonModelVars
    /\ \E data \in ModelDicts :
           LET res == AMFromDict(data)
           IN /\ am' = res.obj
              /\ am_ret' = Ret("from_dict", data, res.raised)

NextModel ==
    \/ AMConstruct
    \/ AMSetFreq
    \/ AMApply
    \/ AMSteer
    \/ AMFromDictCall

SpecModel == Idle /\ [][NextModel]_vars

----------------------------------------------------------------------------
(* SpecScenario: callers of ScenarioManager.validate_scenario *)

ScenarioNames == {None, Some("s")}
ScenarioElementCounts == {None, Some(1), Some(2), Some(256), Some(257), Some(300)}
ScenarioFrequencies == {None, Some(0 - 5), Some(0), Some(1)}
ScenarioArrayTypes ==
    {None} \cup { Some(t) : t \in {"Linear", "Curved", "linear", "curved",
                                   "circular", "rectangular", "hexagonal"} }
ScenarioRadii == {None, Some(0 - 1), Some(0), Some(1)}

ScenarioRecords ==
    [name : ScenarioNames, num_elements : ScenarioElementCounts,
     frequency : ScenarioFrequencies, array_type : ScenarioArrayTypes,
     curvature_radius : ScenarioRadii]

ScnValidate ==
    /\ UNCHANGED <<nonScenarioVars, store>>
    /\ \E scenario_data \in ScenarioRecords :
           scn_ret' = [op |-> "validate_scenario", arg |-> scenario_data,
                       value |-> ValidateScenario(scenario_data)]

NextScenario ==
    \/ ScnValidate

SpecScenario == Idle /\ [][NextScenario]_vars

----------------------------------------------------------------------------
(* SpecStore: callers of ScenarioManager.save_scenario, load_scenario and  *)
(* delete_scenario on one scenarios directory                              *)

StoreNames == {"Tumor Ablation", "tumor ablation", "S", "missing"}

\* the dictionaries given to save_scenario
StoreRecords ==
    [name : {None, Some("Tumor Ablation"), Some("S")},
     num_elements : {None, Some(1), Some(2)},
     frequency : {Some(1)},
     array_type : {Some("Linear"), Some("Curved"), Some("circular")},
     curvature_radius : {None, Some(0), Some(4)}]

StoreRet(op, arg, raised, value, before) ==
    [op |-> op, arg |-> arg, raised |-> raised, value |-> value, before |-> before]

StoreSave ==
    /\ UNCHANGED nonScenarioVars
    /\ \E scenario_data \in StoreRecords :
           LET res == SaveScenario(store, Some(scenario_data))
           IN /\ store' = res.store
              /\ scn_ret' = StoreRet("save_scenario", scenario_data, res.raised, None, store)

StoreLoad ==
    /\ UNCHANGED <<nonScenarioVars, store>>
    /\ \E scenario_name \in StoreNames :
           scn_ret' = StoreRet("load_scenario", scenario_name, FALSE,
                               LoadScenario(store, scenario_name), store)

StoreDelete ==
    /\ UNCHANGED nonScenarioVars
    /\ \E scenario_name \in StoreNames :
           LET res == DeleteScenario(store, scenario_name)
           IN /\ store' = res.store
              /\ scn_ret' = StoreRet("delete_scenario", scenario_name, FALSE, res.value, store)

\* a caller's save_scenario(load_scenario(name)) followed by load_scenario(name);
\* the value is the pair of the dictionary loaded first and the one loaded last
StoreRoundTrip ==
    /\ UNCHANGED nonScenarioVars
    /\ \E scenario_name \in StoreNames :
           LET loaded == LoadScenario(store, scenario_name)
               res == SaveScenario(store, loaded)
           IN /\ store' = res.store
              /\ scn_ret' = StoreRet("round_trip", scenario_name, res.raised,
                                     <<loaded, LoadScenario(res.store, scenario_name)>>, store)

NextStore ==
    \/ StoreSave
    \/ StoreLoad
    \/ StoreDelete
    \/ StoreRoundTrip

SpecStore == Idle /\ [][NextStore]_vars

----------------------------------------------------------------------------
(* SpecEngineScenario: callers of the scenario methods of one              *)
(* BeamformingEngine, with config/scenarios empty at the start             *)

EngineScenarioNames == {"S", "s", "missing"}

EngineRet(op, arg, raised, value, before) ==
    [op |-> op, arg |-> arg, raised |-> raised, value |-> value, before |-> before]

ESAddArray ==
    /\ UNCHANGED <<nonEngineScenarioVars, eng_files>>
    /\ Len(engine.arrays) < MaxSimArrays
    /\ \E array_config \in ArrayConfigs :
           /\ engine' = EngineAddArray(engine, array_config)
           /\ eng_ret' = EngineRet("add_array", array_config, FALSE, None, engine)

ESAddSource ==
    /\ UNCHANGED <<nonEngineScenarioVars, eng_files>>
    /\ Len(engine.sources) < MaxSimArrays
    /\ \E source_config \in SourceConfigs :
           /\ engine' = EngineAddSource(engine, source_config)
           /\ eng_ret' = EngineRet("add_source", source_config, FALSE, None, engine)

ESClearSimulation ==
    /\ UNCHANGED <<nonEngineScenarioVars, eng_files>>
    /\ engine' = EngineClearSimulation(engine)
    /\ eng_ret' = EngineRet("clear_simulation", <<>>, FALSE, None, engine)

ESSaveScenario ==
    /\ UNCHANGED <<nonEngineScenarioVars, engine>>
    /\ \E name \in EngineScenarioNames :
           LET res == EngineSaveScenario(engine, eng_files, name)
           IN /\ eng_files' = res.files
              /\ eng_ret' = EngineRet("save_scenario", name, res.raised, None, engine)

\* the custom_parameters a POST /scenarios/<scenario_name> request carries, as
\* the (key, value) pairs of the JSON object in order: none, or an
\* attribute of the engine and a key the engine has no attribute for
EngineCustomParameters ==
    {<<>>, <<<<"grid_size", 100>>, <<"unknown", 1>>>>}

\* the route load_scenario, "Apply custom parameters": setattr(
\* beamforming_engine, key, value) for every key the engine has an attribute
\* for (of the attributes in the engine record)
RECURSIVE EngineApplyCustomParameters(_, _)
EngineApplyCustomParameters(e, custom_params) ==
    IF custom_params = <<>> THEN e
    ELSE LET key == Head(custom_params)[1]
             value == Head(custom_params)[2]
         IN EngineApplyCustomParameters(
                IF key \in DOMAIN e THEN [e EXCEPT ![key] = value] ELSE e,
                Tail(custom_params))

\* POST /scenarios/<scenario_name>: the route load_scenario calls
\* beamforming_engine.load_scenario(scenario_name) and then applies the
\* request's custom_parameters to the engine; FileNotFoundError gives the
\* response 404, any other exception 500, both with nothing applied
ESLoadScenario ==
    /\ UNCHANGED <<nonEngineScenarioVars, eng_files>>
    /\ \E scenario_name \in EngineScenarioNames, custom_params \in EngineCustomParameters :
           LET res == EngineLoadScenario(engine, eng_files, scenario_name)
           IN /\ engine' = IF res.raised THEN res.obj
                           ELSE EngineApplyCustomParameters(res.obj, custom_params)
              /\ eng_ret' = [op |-> "load_scenario", arg |-> scenario_name,
                             raised |-> res.raised, value |-> res.value,
                             before |-> engine, custom_params |-> custom_params,
                             response |-> IF scenario_name \notin DOMAIN eng_files THEN 404
                                          ELSE IF res.raised THEN 500 ELSE 200]

NextEngineScenario ==
    \/ ESAddArray
    \/ ESAddSource
    \/ ESClearSimulation
    \/ ESSaveScenario
    \/ ESLoadScenario

SpecEngineScenario == Idle /\ [][NextEngineScenario]_vars

----------------------------------------------------------------------------
(* SpecScenarioModel: callers of one backend2 Scenario object *)

\* largest number of sources and of arrays a caller puts in one Scenario
MaxScenarioSources == 4
MaxScenarioArrays == 2

ScenarioIds == {None, Some("test_scenario")}
ScenarioNameArgs == {"New Scenario", "Test Scenario"}
Uuids == {"uuid-1", "uuid-2"}
SourceArgs == {ScenarioSource("tx_1", "transmitter"), ScenarioSource("src_2", "target")}
ArrayArgs == {ScenarioArray("array_2", "linear", 8)}

ScenarioRet(op, arg, value) == [op |-> op, arg |-> arg, raised |-> FALSE, value |-> value]

SMConstruct ==
    /\ UNCHANGED nonScenarioModelVars
    /\ \E scenario_id \in ScenarioIds, name \in ScenarioNameArgs,
          scenario_type \in ScenarioTypes, uuid \in Uuids :
           /\ scenario' = Some(NewScenario(scenario_id, name, scenario_type, uuid))
           /\ scenario_ret' = ScenarioRet("__init__", <<scenario_id, name, scenario_type>>, None)

SMAddSource ==
    /\ UNCHANGED nonScenarioModelVars
    /\ scenario.given
    /\ Len(scenario.val.sources) < MaxScenarioSources
    /\ \E source \in SourceArgs :
           /\ scenario' = Some(ScenarioAddSource(scenario.val, source))
           /\ scenario_ret' = ScenarioRet("add_source", source, None)

SMRemoveSource ==
    /\ UNCHANGED nonScenarioModelVars
    /\ scenario.given
    /\ \E source_id \in {"tx_1", "target_1", "absent"} :
           LET res == ScenarioRemoveSource(scenario.val, source_id)
           IN /\ scenario' = Some(res.obj)
              /\ scenario_ret' = ScenarioRet("remove_source", source_id, Some(res.value))

SMAddArray ==
    /\ UNCHANGED nonScenarioModelVars
    /\ scenario.given
    /\ Len(scenario.val.arrays) < MaxScenarioArrays
    /\ \E array_config \in ArrayArgs :
           /\ scenario' = Some(ScenarioAddArray(scenario.val, array_config))
           /\ scenario_ret' = ScenarioRet("add_array", array_config, None)

SMUpdateParameters ==
    /\ UNCHANGED nonScenarioModelVars
    /\ scenario.given
    /\ \E num_elements \in {8, 16} :
           /\ scenario' = Some(ScenarioUpdateParameters(scenario.val, num_elements))
           /\ scenario_ret' = ScenarioRet("update_parameters", num_elements, None)

\* scenario.save_to_file(path) followed by Scenario.load_from_file(path); the
\* value is the loaded Scenario
SMSaveLoad ==
    /\ UNCHANGED <<nonScenarioModelVars, scenario>>
    /\ scenario.given
    /\ \E uuid \in Uuids :
           scenario_ret' = ScenarioRet("save_load", <<>>,
                                       Some(ScenarioFromDict(ScenarioToDict(scenario.val), uuid)))

NextScenarioModel ==
    \/ SMConstruct
    \/ SMAddSource
    \/ SMRemoveSource
    \/ SMAddArray
    \/ SMUpdateParameters
    \/ SMSaveLoad

SpecScenarioModel == Idle /\ [][NextScenarioModel]_vars

----------------------------------------------------------------------------
(* Element angles of the curved geometries. The angles of an arc are kept  *)
(* exactly: angle i is coef[i] / den times a unit, and the unit is a       *)
(* rational number of radians ("rad": num / den), a rational multiple of   *)
(* pi ("pi": num / den * pi) or an arcsine ("asin": arcsin(num / den),     *)
(* "nan" when num > den). The radius is num quarter units, or num / pi     *)
(* quarter units when over_pi.                                             *)

\* np.linspace(lo / den, hi / den, n): the numerators, over LinspaceDen(den, n)
Linspace(lo, hi, n) ==
    [i \in 1..n |-> IF n = 1 THEN lo ELSE lo * (n - i) + hi * (i - 1)]

LinspaceDen(den, n) == IF n = 1 THEN den ELSE den * (n - 1)

\* backend PhasedArray._compute_element_positions, curved branch:
\* total_angle = arc_length / curvature_radius when the radius is positive and
\* pi / 2 otherwise; angles = linspace(-total_angle / 2, total_angle / 2, n)
BackendCurvedAngles(n, sp2, radius4) ==
    [radius |-> [num |-> radius4, over_pi |-> FALSE],
     unit |-> IF radius4 > 0
              THEN [kind |-> "rad", num |-> (n - 1) * 2 * sp2, den |-> radius4]
              ELSE [kind |-> "pi", num |-> 1, den |-> 2],
     coef |-> Linspace(0 - 1, 1, n),
     den |-> LinspaceDen(2, n)]

\* BeamformingEngine._create_curved_array with curvature # 0:
\* radius = 1 / curvature, angle = arc_length / radius,
\* angles = linspace(-angle / 2, angle / 2, n)
EngineCurvedAngles(n, sp2, c20) ==
    [radius |-> [num |-> ModelRadius4(c20), over_pi |-> FALSE],
     unit |-> [kind |-> "rad", num |-> (n - 1) * 2 * sp2, den |-> ModelRadius4(c20)],
     coef |-> Linspace(0 - 1, 1, n),
     den |-> LinspaceDen(2, n)]

\* array_model PhasedArray._create_curved_array with curvature # 0:
\* angle_range = arcsin((n - 1) * spacing / (2 * radius)),
\* angles = linspace(-angle_range, angle_range, n)
ModelCurvedAngles(n, sp2, c20) ==
    [radius |-> [num |-> ModelRadius4(c20), over_pi |-> FALSE],
     unit |-> [kind |-> IF (n - 1) * sp2 > ModelRadius4(c20) THEN "nan" ELSE "asin",
               num |-> (n - 1) * sp2, den |-> ModelRadius4(c20)],
     coef |-> Linspace(0 - 1, 1, n),
     den |-> LinspaceDen(1, n)]

----------------------------------------------------------------------------
(* backend_pt2 PhasedArray: src/backend_pt2/core/phased_array.py           *)
(* Frequencies are in units of 1.5e8 Hz, so that the wavelength 3e8 / f is *)
(* 2 / f length units; spacings are in halves of a length unit.            *)

Pt2Wavelength(frequency) == 2 \div frequency

\* the curvature_radius attribute: (n - 1) * element_spacing / pi for a curved
\* array built without a radius, else the radius given, or 1.0 when that is
\* None or 0
Pt2CurvatureRadius(num_elements, geometry, sp2, curvature_radius) ==
    IF ~curvature_radius.given /\ geometry = "curved"
    THEN [num |-> (num_elements - 1) * 2 * sp2, over_pi |-> TRUE]
    ELSE IF curvature_radius.given /\ curvature_radius.val # 0
    THEN [num |-> curvature_radius.val, over_pi |-> FALSE]
    ELSE [num |-> 4, over_pi |-> FALSE]

\* PhasedArray._calculate_positions, curved branch:
\* theta = linspace(-pi, 0, n), whatever the spacing and the radius
Pt2CurvedAngles(n, radius) ==
    [radius |-> radius,
     unit |-> [kind |-> "pi", num |-> 1, den |-> 1],
     coef |-> Linspace(0 - 1, 0, n),
     den |-> LinspaceDen(1, n)]

\* the configurations whose coordinates are rational: a linear array, or a
\* half circle of at most three elements (angles -pi, -pi/2, 0) with a
\* rational radius
Pt2Representable(n, geometry, radius) ==
    geometry = "linear" \/ (n <= 3 /\ (~radius.over_pi \/ radius.num = 0))

\* PhasedArray._calculate_positions, in quarter units: linear
\* x = arange(-(n-1)/2, n/2) * element_spacing, y = 0; curved
\* (radius * cos(theta), radius * sin(theta))
Pt2CalculatePositions(n, geometry, sp2, radius) ==
    IF geometry = "linear"
    THEN [i \in 1..n |-> <<(2 * (i - 1) - (n - 1)) * sp2, 0>>]
    ELSE [i \in 1..n |->
             LET c == Linspace(0 - 1, 0, n)[i]      \* theta = c / den * pi
                 d == LinspaceDen(1, n)
             IN IF c = 0 - d THEN <<0 - radius.num, 0>>
                ELSE IF c = 0 THEN <<radius.num, 0>>
                ELSE <<0, 0 - radius.num>>]

\* PhasedArray.__init__: element_spacing and curvature_radius are optional;
\* a frequency of 0 raises ZeroDivisionError
NewPt2Array(num_elements, frequency, geometry, element_spacing, curvature_radius) ==
    IF frequency = 0
    THEN [obj |-> None, raised |-> TRUE]
    ELSE LET g == Lower(geometry)
             wavelength == Pt2Wavelength(frequency)
             sp2 == IF element_spacing.given
                    THEN element_spacing.val * wavelength
                    ELSE wavelength
             radius == Pt2CurvatureRadius(num_elements, g, sp2, curvature_radius)
         IN [obj |-> Some([num_elements |-> num_elements,
                           frequency |-> frequency,
                           geometry |-> g,
                           wavelength |-> wavelength,
                           element_spacing |-> sp2,
                           curvature_radius |-> radius,
                           positions |->
                               IF Pt2Representable(num_elements, g, radius)
                               THEN Some(Pt2CalculatePositions(num_elements, g, sp2, radius))
                               ELSE None,
                           angles |->
                               IF g = "linear" THEN None
                               ELSE Some(Pt2CurvedAngles(num_elements, radius))]),
             raised |-> FALSE]

\* PhasedArray.calculate_phase_shifts, linear branch, in units of pi/4:
\* k * element_spacing * sin(theta) * arange(num_elements) with
\* k = 2*pi / wavelength (element_spacing is a multiple of the wavelength)
Pt2CalculatePhaseShifts(a, steering_angle_deg) ==
    [i \in 1..a.num_elements |->
        (2 * a.element_spacing * Sin2(steering_angle_deg) * (i - 1)) \div a.wavelength]

----------------------------------------------------------------------------
(* backend2 array utilities: src/backend2/utils/array_utils.py *)

\* _generate_linear_positions, in quarter units
GenerateLinearPositions(num_elements, sp2) ==
    [i \in 1..num_elements |-> <<(2 * (i - 1) - num_elements + 1) * sp2, 0>>]

\* _generate_rectangular_positions, in quarter units
GenerateRectangularPositions(num_elements, sp2) ==
    LET rows == ISqrt(num_elements)
        cols == (num_elements + rows - 1) \div rows
    IN [idx \in 1..num_elements |->
           <<(2 * ((idx - 1) % cols) - (cols - 1)) * sp2,
             (2 * ((idx - 1) \div cols) - (rows - 1)) * sp2>>]

\* _apply_rotation
ApplyRotation(positions, angle_deg) ==
    [i \in 1..Len(positions) |->
        <<(positions[i][1] * Cos2(angle_deg) - positions[i][2] * Sin2(angle_deg)) \div 2,
          (positions[i][1] * Sin2(angle_deg) + positions[i][2] * Cos2(angle_deg)) \div 2>>]

\* generate_array_positions for the linear and rectangular geometries: the
\* rotation is applied when the orientation is not 0; there is no translation
GenerateArrayPositions(geometry, num_elements, sp2, orientation) ==
    LET positions == IF geometry = "rectangular"
                     THEN GenerateRectangularPositions(num_elements, sp2)
                     ELSE GenerateLinearPositions(num_elements, sp2)
    IN IF orientation # 0 THEN ApplyRotation(positions, orientation) ELSE positions

----------------------------------------------------------------------------
(* SpecGeometry: one construction of an array by each implementation of    *)
(* the element geometry. geo records the arguments, the element_spacing    *)
(* attribute the object ends with, the local coordinates (the coordinates  *)
(* the code computes before it rotates and translates), the element        *)
(* positions where they are rational, and the angle table of an arc.       *)

\* largest number of elements of one constructed array
MaxGeoN == 5

GeoCounts == 1..MaxGeoN
GeoSpacings2 == {1, 2, 3}              \* spacing 0.5, 1.0 and 1.5
GeoOrientations == {0, 90}
GeoPositions == {<<0, 0>>, <<1, 2>>}
GeoRadii4 == {0, 4}                  \* backend curvature_radius 0 and 1.0
GeoCurvatures20 == {0, 16}           \* backend2 curvature 0 and 0.8
Pt2Frequencies == {0, 1, 2}          \* 0, 1.5e8 and 3e8 Hz
Pt2Geometries == {"linear", "curved", "Linear"}
Pt2Radii4 == {0, 8}                  \* curvature_radius 0 and 2.0
GeoEngineTypes == {"linear", "curved", "rectangular"}
GeoUtilGeometries == {"linear", "rectangular"}
GeoModelTypes == {"linear", "curved", "rectangular"}

GeoRec(impl, geometry, n, spacing_arg, spacing, position, orientation, raised, local, positions, angles) ==
    [impl |-> impl, geometry |-> geometry, num_elements |-> n,
     spacing_arg |-> spacing_arg, spacing |-> spacing,
     position |-> position, orientation |-> orientation,
     raised |-> raised, local |-> local, positions |-> positions, angles |-> angles]

\* backend PhasedArray(num_elements, element_spacing, geometry,
\* curvature_radius, position, orientation)
GeoBackend ==
    /\ UNCHANGED nonGeoVars
    /\ \E n \in GeoCounts, sp2 \in GeoSpacings2, g \in Geometries, r4 \in GeoRadii4,
          p \in GeoPositions, o \in GeoOrientations :
           LET a == NewPhasedArray(n, sp2, g, r4, p, o, "A")
               rep == Representable(n, g, r4)
           IN geo' = GeoRec("backend", g, n, Some(sp2), a.element_spacing, p, o, FALSE,
                            IF rep THEN Some([i \in 1..n |-> LocalPosition(n, sp2, g, r4, i - 1)])
                                   ELSE None,
                            IF rep THEN Some(a.element_positions) ELSE None,
                            IF g = "curved" THEN Some(BackendCurvedAngles(n, sp2, r4)) ELSE None)

\* backend_pt2 PhasedArray(num_elements, frequency, geometry, element_spacing,
\* curvature_radius); the array has neither a position nor an orientation
GeoBackendPt2 ==
    /\ UNCHANGED nonGeoVars
    /\ \E n \in GeoCounts, f \in Pt2Frequencies, g \in Pt2Geometries,
          sp \in Opt(GeoSpacings2), r \in Opt(Pt2Radii4) :
           LET res == NewPt2Array(n, f, g, sp, r)
           IN geo' = IF res.raised
                     THEN GeoRec("backend_pt2", Lower(g), n, sp, 0, <<0, 0>>, 0, TRUE,
                                 None, None, None)
                     ELSE GeoRec("backend_pt2", res.obj.val.geometry, n, sp,
                                 res.obj.val.element_spacing, <<0, 0>>, 0, FALSE,
                                 res.obj.val.positions, res.obj.val.positions,
                                 res.obj.val.angles)

\* BeamformingEngine.add_array on a new engine
GeoEngine ==
    /\ UNCHANGED nonGeoVars
    /\ \E n \in GeoCounts, sp2 \in GeoSpacings2, t \in GeoEngineTypes, c20 \in GeoCurvatures20,
          p \in GeoPositions, o \in GeoOrientations :
           LET cfg == [array_id |-> None, type |-> t, num_elements |-> n, spacing |-> sp2,
                       position |-> p, orientation |-> o, curvature |-> c20,
                       delays |-> None, amplitudes |-> None, enabled |-> TRUE]
               rep == t # "curved" \/ EngineCurvedRepresentable(n, c20)
               array == EngineAddArray(NewEngine, cfg).arrays[1]
           IN geo' = GeoRec("engine", t, n, Some(sp2), array.spacing, p, o, FALSE,
                            IF rep THEN Some(EngineLocalPositions(cfg)) ELSE None,
                            IF rep THEN Some(array.element_positions) ELSE None,
                            IF t = "curved" /\ c20 # 0
                            THEN Some(EngineCurvedAngles(n, sp2, c20)) ELSE None)

\* array_utils.generate_array_positions(geometry, num_elements, spacing,
\* orientation=orientation)
GeoArrayUtils ==
    /\ UNCHANGED nonGeoVars
    /\ \E n \in GeoCounts, sp2 \in GeoSpacings2, g \in GeoUtilGeometries, o \in GeoOrientations :
           geo' = GeoRec("array_utils", g, n, Some(sp2), sp2, <<0, 0>>, o, FALSE,
                         Some(GenerateArrayPositions(g, n, sp2, 0)),
                         Some(GenerateArrayPositions(g, n, sp2, o)),
                         None)

\* array_model PhasedArray(array_id, array_type, num_elements, spacing,
\* position, orientation, curvature); an arc is built only where its
\* coordinates are rational
GeoArrayModel ==
    /\ UNCHANGED nonGeoVars
    /\ \E n \in GeoCounts, sp2 \in GeoSpacings2, t \in GeoModelTypes, c20 \in GeoCurvatures20,
          p \in GeoPositions, o \in GeoOrientations :
           LET res == NewArrayModel("array_0", t, n, sp2, p, o, c20)
               rep == ModelCurvedRepresentable(n, sp2, c20)
           IN /\ (t = "curved" /\ c20 # 0) => rep
              /\ geo' = IF res.raised
                     THEN GeoRec("array_model", t, n, Some(sp2), sp2, p, o, TRUE,
                                 None, None, None)
                     ELSE GeoRec("array_model", t, n, Some(sp2), res.obj.val.spacing, p, o, FALSE,
                                 Some([i \in 1..n |->
                                        CreateCurvedArray(
                                            [res.obj.val EXCEPT !.position = <<0, 0>>])[i].position]),
                                 Some([i \in 1..n |-> res.obj.val.elements[i].position]),
                                 Some(ModelCurvedAngles(n, sp2, c20)))

NextGeometry ==
    \/ GeoBackend
    \/ GeoBackendPt2
    \/ GeoEngine
    \/ GeoArrayUtils
    \/ GeoArrayModel

SpecGeometry == Idle /\ [][NextGeometry]_vars

----------------------------------------------------------------------------
(* backend_pt2 BeamformingSimulator:                                       *)
(* src/backend_pt2/core/beamforming_simulator.py. Speeds are in units of   *)
(* 1.5e8 m/s and frequencies in units of 1.5e8 Hz, so that the wavelength  *)
(* speed / frequency is in length units; element spacings are in halves of *)
(* a length unit, and spacing arguments in halves of a wavelength.         *)

\* SPEED_OF_LIGHT = 3e8
SimSpeedOfLight == 2

\* BeamformingSimulator.__init__ for a linear array; a frequency of 0 raises
\* ZeroDivisionError
NewPt2Simulator(num_elements, frequency, element_spacing, beam_angle, mode) ==
    IF frequency = 0
    THEN [obj |-> None, raised |-> TRUE]
    ELSE LET wavelength == SimSpeedOfLight \div frequency
         IN [obj |-> Some([num_elements |-> num_elements,
                           frequency |-> frequency,
                           beam_angle |-> beam_angle,
                           array_type |-> "linear",
                           mode |-> mode,
                           propagation_speed |-> SimSpeedOfLight,
                           wavelength |-> wavelength,
                           element_spacing |->
                               IF element_spacing.given
                               THEN element_spacing.val * wavelength
                               ELSE wavelength,        \* wavelength / 2
                           curvature_radius |-> 4]),   \* 1.0
             raised |-> FALSE]

\* BeamformingSimulator.set_propagation_speed: the speed is stored, then the
\* wavelength (ZeroDivisionError when the frequency is 0), then the spacing
\* is reset to half a wavelength
Pt2SetPropagationSpeed(sm, speed) ==
    IF sm.frequency = 0
    THEN Raise([sm EXCEPT !.propagation_speed = speed])
    ELSE Ok([sm EXCEPT !.propagation_speed = speed,
                       !.wavelength = speed \div sm.frequency,
                       !.element_spacing = speed \div sm.frequency])

\* BeamformingSimulator.set_beam_angle: the angle is stored as given
Pt2SetBeamAngle(sm, angle) == Ok([sm EXCEPT !.beam_angle = angle])

\* BeamformingSimulator.update_parameters(**kwargs): the keys are handled in
\* the order num_elements, frequency, beam_angle, array_type,
\* element_spacing, mode; a frequency of 0 is stored and then raises
\* ZeroDivisionError, which leaves the later keys unhandled
Pt2UpdateParameters(sm, kw) ==
    LET s1 == IF kw.num_elements.given
              THEN [sm EXCEPT !.num_elements = kw.num_elements.val] ELSE sm
    IN IF kw.frequency.given /\ kw.frequency.val = 0
       THEN Raise([s1 EXCEPT !.frequency = 0])
       ELSE LET s2 == IF kw.frequency.given
                      THEN [s1 EXCEPT !.frequency = kw.frequency.val,
                                      !.wavelength = s1.propagation_speed \div kw.frequency.val]
                      ELSE s1
                s3 == IF kw.beam_angle.given
                      THEN [s2 EXCEPT !.beam_angle = kw.beam_angle.val] ELSE s2
                s3a == IF kw.array_type.given
                       THEN [s3 EXCEPT !.array_type = Lower(kw.array_type.val)] ELSE s3
                s4 == IF kw.element_spacing.given
                      THEN [s3a EXCEPT !.element_spacing = kw.element_spacing.val * s3a.wavelength]
                      ELSE s3a
            IN Ok(IF kw.mode.given THEN [s4 EXCEPT !.mode = Lower(kw.mode.val)] ELSE s4)

----------------------------------------------------------------------------
(* Beam profiles: compute_beam_profile of the two BeamformingSimulator      *)
(* classes (backend/core/beamforming/beamforming_simulator.py and           *)
(* backend_pt2/core/beamforming_simulator.py). The profile is sampled at    *)
(* num_angles = 5 angles, -180, -90, 0, 90 and 180 degrees, where every     *)
(* element phase is a multiple of pi/2; the array factor is then a complex  *)
(* number <<re, im>> with integer parts. A magnitude is kept as its square, *)
(* a normalized magnitude as the ratio num / den of two squares, or "nan".  *)

\* sin of the sampled angles linspace(-180, 180, 5)
SampleSines == <<0, 0 - 1, 0, 1, 0>>

\* exp(j * m * pi/2)
Cis4(m) ==
    CASE m % 4 = 0 -> <<1, 0>>
      [] m % 4 = 1 -> <<0, 1>>
      [] m % 4 = 2 -> <<0 - 1, 0>>
      [] m % 4 = 3 -> <<0, 0 - 1>>

\* sum of exp(j * (idx * step) * pi/2) for idx = first..last
RECURSIVE CisSum(_, _, _)
CisSum(first, last, step) ==
    IF first > last THEN <<0, 0>>
    ELSE LET z == Cis4(first * step)
             rest == CisSum(first + 1, last, step)
         IN <<z[1] + rest[1], z[2] + rest[2]>>

\* np.abs(z) ** 2
MagSq(z) == z[1] * z[1] + z[2] * z[2]

\* backend: the progressive phase shift of one array, in units of pi/2: the
\* phase_shift given, or 2*pi*spacing*sin(beam_angle) when a beam angle is
\* given without a phase shift
ProfilePhaseShift(array) ==
    IF array.beam_angle # 0 /\ array.phase_shift = 0
    THEN array.element_spacing * Sin2(array.beam_angle)
    ELSE array.phase_shift

\* backend: the array factor at one sampled angle, summed over the arrays;
\* element idx of an array has phase k*spacing*idx*sin(theta) + idx*phase_shift
RECURSIVE ArrayFactor(_, _)
ArrayFactor(arrays, sine) ==
    IF arrays = <<>> THEN <<0, 0>>
    ELSE LET a == Head(arrays)
             z == CisSum(0, a.num_elements - 1,
                         2 * a.element_spacing * sine + ProfilePhaseShift(a))
             rest == ArrayFactor(Tail(arrays), sine)
         IN <<z[1] + rest[1], z[2] + rest[2]>>

\* 20*log10(clip(magnitude, 1e-10, 1)) floored at -60 and rescaled to 0..1:
\* 0 for a zero magnitude, 1 for the peak, and a value in between that is
\* kept as the ratio it is computed from; nan stays nan
ScaleMagnitude(m) ==
    IF m.kind = "nan" THEN m
    ELSE IF m.num = 0 THEN [kind |-> "value", num |-> 0, den |-> 1]
    ELSE IF m.num = m.den THEN [kind |-> "value", num |-> 1, den |-> 1]
    ELSE [kind |-> "db", num |-> m.num, den |-> m.den]

\* backend: if np.max(magnitude) > 0: magnitude = magnitude / np.max(magnitude)
NormalizeGuarded(magsq) ==
    [i \in 1..Len(magsq) |->
        IF SeqMax(magsq) > 0
        THEN [kind |-> "ratio", num |-> magsq[i], den |-> SeqMax(magsq)]
        ELSE [kind |-> "ratio", num |-> 0, den |-> 1]]

\* backend BeamformingSimulator.compute_beam_profile(num_angles=5)
ComputeBeamProfile(arrays) ==
    LET magsq == [i \in 1..Len(SampleSines) |-> MagSq(ArrayFactor(arrays, SampleSines[i]))]
        normalized == NormalizeGuarded(magsq)
    IN [raised |-> FALSE, magsq |-> magsq, normalized |-> normalized,
        magnitude |-> [i \in 1..Len(normalized) |-> ScaleMagnitude(normalized[i])]]

\* backend_pt2: magnitude = magnitude / np.max(magnitude), a division of 0
\* by 0 (nan, with a RuntimeWarning) when the array factor is 0 everywhere
Pt2Normalize(magsq) ==
    [i \in 1..Len(magsq) |->
        IF SeqMax(magsq) = 0
        THEN [kind |-> "nan", num |-> 0, den |-> 0]
        ELSE [kind |-> "ratio", num |-> magsq[i], den |-> SeqMax(magsq)]]

\* backend_pt2 BeamformingSimulator.compute_beam_profile(num_angles=5) of a
\* linear array in transmitter mode: element idx at
\* x = (idx - (n-1)/2) * element_spacing has phase
\* k * x * (sin(theta) - sin(steering_angle)), which is
\* (2*idx - (n-1)) * (element_spacing / wavelength) * diff in units of pi/2
RECURSIVE Pt2ArrayFactor(_, _, _)
Pt2ArrayFactor(sm, idx, diff) ==
    IF idx >= sm.num_elements THEN <<0, 0>>
    ELSE LET z == Cis4((2 * idx - (sm.num_elements - 1))
                           * (sm.element_spacing \div sm.wavelength) * diff)
             rest == Pt2ArrayFactor(sm, idx + 1, diff)
         IN <<z[1] + rest[1], z[2] + rest[2]>>

\* backend_pt2 BeamformingSimulator.get_element_positions: the debug messages
\* are f-strings, evaluated at any log level; with no element
\* x_positions.min() of the empty array raises ValueError (linear) and
\* theta[0] raises IndexError (any other array_type)
Pt2GetElementPositionsRaises(sm) == sm.num_elements = 0

\* compute_beam_profile calls get_element_positions first, outside any try
Pt2ComputeBeamProfile(sm) ==
    IF Pt2GetElementPositionsRaises(sm)
    THEN [raised |-> TRUE, magsq |-> <<>>, normalized |-> <<>>, magnitude |-> <<>>]
    ELSE
    LET magsq == [i \in 1..Len(SampleSines) |->
                     MagSq(Pt2ArrayFactor(sm, 0, SampleSines[i] - Sin2(sm.beam_angle) \div 2))]
        normalized == Pt2Normalize(magsq)
    IN [raised |-> FALSE, magsq |-> magsq, normalized |-> normalized,
        magnitude |-> [i \in 1..Len(normalized) |-> ScaleMagnitude(normalized[i])]]

----------------------------------------------------------------------------
(* SpecSteering: a linear array is constructed and steered, by each        *)
(* implementation of the steering phases. steer records the arguments, the *)
(* spacing in wavelengths (in halves) and the phases assigned (units of    *)
(* pi/4).                                                                  *)

\* largest number of elements of a steered array
MaxSteerN == 8

SteerCounts == 1..MaxSteerN
SteerSpacings2 == {1, 2, 3}              \* 0.5, 1.0 and 1.5 wavelengths
SteerAngles == {0, 30, 0 - 30, 90, 0 - 90}
SteerFrequencies == {0, 1, 2}
SteerSpeeds == {1, 2}

\* backend: PhasedArray(n, spacing, 'linear').set_steering_angle(angle, f, c)
SteerBackend ==
    /\ UNCHANGED nonSteerVars
    /\ \E n \in SteerCounts, sp2 \in SteerSpacings2, angle \in SteerAngles,
          f \in SteerFrequencies, c \in SteerSpeeds :
           LET a == NewPhasedArray(n, sp2, "linear", 0, <<0, 0>>, 0, "A")
               res == SetSteeringAngle(a, angle, f, c)
           IN steer' = [impl |-> "backend", num_elements |-> n, spacing |-> sp2,
                        angle |-> angle, raised |-> res.raised,
                        phases |-> res.obj.phase_shifts]

\* backend_pt2: PhasedArray(n, f, 'linear', spacing).calculate_phase_shifts(angle)
SteerBackendPt2 ==
    /\ UNCHANGED nonSteerVars
    /\ \E n \in SteerCounts, sp \in Opt(SteerSpacings2), angle \in SteerAngles,
          f \in SteerFrequencies :
           LET res == NewPt2Array(n, f, "linear", sp, NoArg)
           IN steer' = [impl |-> "backend_pt2", num_elements |-> n,
                        spacing |-> IF sp.given THEN sp.val ELSE 1,
                        angle |-> angle, raised |-> res.raised,
                        phases |-> IF res.raised THEN <<>>
                                   ELSE Pt2CalculatePhaseShifts(res.obj.val, angle)]

NextSteering ==
    \/ SteerBackend
    \/ SteerBackendPt2

SpecSteering == Idle /\ [][NextSteering]_vars

----------------------------------------------------------------------------
(* SpecFocus: one backend PhasedArray is constructed and focused *)

\* largest number of elements of a focused array
MaxFocusN == 3

FocusCounts == 1..MaxFocusN
FocusSpacings2 == {1, 2, 3}
FocusPointArgs == {<<0, 0>>, <<1, 0>>, <<0, 2>>, <<0 - 1, 1>>}
FocusFrequencies == {0, 1, 2}

\* PhasedArray(n, spacing, 'linear', orientation=o)
FocusConstruct ==
    /\ UNCHANGED nonPAVars
    /\ \E n \in FocusCounts, sp2 \in FocusSpacings2, o \in Orientations :
           /\ pa' = NewPhasedArray(n, sp2, "linear", 0, <<0, 0>>, o, "A")
           /\ pa_ret' = Ret("__init__", <<>>, FALSE)

\* set_focus_point(focus_x, focus_y, frequency, speed)
FocusSetFocusPoint ==
    /\ UNCHANGED nonPAVars
    /\ \E focus \in FocusPointArgs, f \in FocusFrequencies, c \in Speeds :
           /\ FocusExact(pa, focus)
           /\ LET res == SetFocusPoint(pa, focus, f, c)
              IN /\ pa' = res.obj
                 /\ pa_ret' = Ret("set_focus_point", <<focus, f, c>>, res.raised)

NextFocus ==
    \/ FocusConstruct
    \/ FocusSetFocusPoint

SpecFocus == Init /\ [][NextFocus]_vars

----------------------------------------------------------------------------
(* SpecProfile: a simulator is set up and compute_beam_profile(5) is       *)
(* called on it, for each of the two BeamformingSimulator classes. prof    *)
(* records the configuration, its number of elements and the result.       *)

\* largest number of arrays of the backend simulator, and of elements of one
\* array
MaxProfArrays == 2
MaxProfN == 2

ProfCounts == 0..MaxProfN
ProfBeamAngles == {0, 90}
ProfArrays ==
    [num_elements : ProfCounts, element_spacing : {1, 2},
     phase_shift : {0}, beam_angle : ProfBeamAngles]
ProfArrayLists ==
    UNION { [1..len -> ProfArrays] : len \in 0..MaxProfArrays }

RECURSIVE TotalElements(_)
TotalElements(arrays) ==
    IF arrays = <<>> THEN 0 ELSE Head(arrays).num_elements + TotalElements(Tail(arrays))

\* backend: BeamformingSimulator(); update_parameters(arrays=[...]);
\* compute_beam_profile(5)
ProfBackend ==
    /\ UNCHANGED nonProfVars
    /\ \E arrays \in ProfArrayLists :
           LET res == ComputeBeamProfile(arrays)
           IN prof' = [impl |-> "backend", arg |-> arrays, elements |-> TotalElements(arrays),
                       raised |-> res.raised, magsq |-> res.magsq,
                       normalized |-> res.normalized, magnitude |-> res.magnitude]

\* backend_pt2: BeamformingSimulator(num_elements, frequency, element_spacing,
\* beam_angle).compute_beam_profile(5)
ProfBackendPt2 ==
    /\ UNCHANGED nonProfVars
    /\ \E n \in ProfCounts, f \in {1, 2}, sp \in Opt({1, 2}), b \in ProfBeamAngles :
           LET sm == NewPt2Simulator(n, f, sp, b, "transmitter").obj.val
               res == Pt2ComputeBeamProfile(sm)
           IN prof' = [impl |-> "backend_pt2", arg |-> <<n, f, sp, b>>, elements |-> n,
                       raised |-> res.raised, magsq |-> res.magsq,
                       normalized |-> res.normalized, magnitude |-> res.magnitude]

NextProfile ==
    \/ ProfBackend
    \/ ProfBackendPt2

SpecProfile == Idle /\ [][NextProfile]_vars

----------------------------------------------------------------------------
(* Task managers of backend2: core/task_manager.py (TaskManager) and        *)
(* utils/async_utils.py (AsyncTaskManager, whose instance                   *)
(* global_task_manager the decorators of that module write to). A manager   *)
(* holds the Task objects created so far (tm.tasks, in the order of their   *)
(* creation; an object is in the table self.tasks under its id while        *)
(* in_table is true, and it stays where it is in tm.tasks when it is        *)
(* removed from the table or replaced there, because a thread may still     *)
(* hold it), the queue of task ids, the lock (0 when free, else the worker  *)
(* thread that holds it, CallerThread for the thread inside cancel_task),   *)
(* one record per worker thread (its position in     *)
(* _worker_loop / _execute_task and the task it took: the id it got from    *)
(* the queue at "got", the object it found under that id afterwards), one   *)
(* caller thread that cancels tasks and one thread that submits them. A     *)
(* task carries its id, its status, whether completed_at is set, what its   *)
(* handler does ("returns", "raises", or "none" when no handler is          *)
(* registered for its type (TaskManager) or no function was given           *)
(* (AsyncTaskManager)), the call that created it, and the position of the   *)
(* thread that background_task started for it. A block under                *)
(* `with self.lock` that reads and then writes a status is two steps when   *)
(* code outside the lock can write the status in between (TaskManager),     *)
(* and one step otherwise.                                                  *)

\* number of worker threads one start_workers starts (max_workers) and
\* number of task ids
MaxWorkers == 1
MaxTasks == 1

\* Task objects created: load_state can store a second object under an id
MaxObjects == MaxTasks + 1

\* worker threads alive at a time: the threads of one start_workers and one
\* thread of an earlier start_workers that has not ended yet
MaxThreads == MaxWorkers + 1

Workers == 1..MaxThreads

\* the holder of the lock while the caller thread is inside the
\* `with self.lock` block of AsyncTaskManager.cancel_task
CallerThread == MaxThreads + 1
HandlerKinds == {"returns", "raises", "none"}
TaskStatuses == {"pending", "running", "completed", "failed", "cancelled"}
TerminalStatuses == {"completed", "failed", "cancelled"}
ActiveStatuses == {"pending", "running"}

\* TaskManager.__init__ / AsyncTaskManager.__init__, with the workers
\* started: max_workers threads, each at the test of its
\* `while self.is_running`; the other thread records are unused ("none")
NewTaskManager(impl) ==
    [impl |-> impl, tasks |-> <<>>, queue |-> <<>>, lock |-> 0, is_running |-> TRUE,
     workers |-> [w \in Workers |-> [pc |-> IF w <= MaxWorkers THEN "idle" ELSE "none",
                                     task |-> 0]],
     caller |-> [pc |-> "idle", task |-> 0],
     submitter |-> [pc |-> "idle", task |-> 0]]

\* the ids of the tasks created so far; uuid4 gives an id that is none of
\* them
TaskIds(m) == { m.tasks[o].id : o \in 1..Len(m.tasks) }
NextTaskId(m) == Cardinality(TaskIds(m)) + 1

\* self.tasks.get(task_id): the object in the table under the id, 0 when
\* `task_id not in self.tasks`
TableObject(m, task_id) ==
    IF \E o \in 1..Len(m.tasks) : m.tasks[o].id = task_id /\ m.tasks[o].in_table
    THEN CHOOSE o \in 1..Len(m.tasks) : m.tasks[o].id = task_id /\ m.tasks[o].in_table
    ELSE 0

\* the objects in the table
TableObjects(m) == { o \in 1..Len(m.tasks) : m.tasks[o].in_table }

\* Task(...) of TaskManager.submit_task, AsyncTaskResult(...) of
\* AsyncTaskManager.submit_task: the status is PENDING, completed_at None
NewTask(task_id, kind) ==
    [id |-> task_id, in_table |-> TRUE, status |-> "pending", completed_at |-> FALSE,
     kind |-> kind, origin |-> "submit_task", thread |-> "none"]

\* completed_at = time.time()
TaskStamp(task) == [task EXCEPT !.completed_at = TRUE]

\* Task.fail, and the except branch of AsyncTaskManager._execute_task
TaskFail(task) == TaskStamp([task EXCEPT !.status = "failed"])

\* Task.start, and "Mark as running" of AsyncTaskManager._worker_loop
TaskStart(task) == [task EXCEPT !.status = "running"]

\* Task.complete, and "Update task" of AsyncTaskManager._execute_task
TaskComplete(task) == TaskStamp([task EXCEPT !.status = "completed"])

TMConstruct ==
    /\ UNCHANGED nonTaskVars
    /\ tm.impl = "none"
    /\ \E impl \in {"TaskManager", "AsyncTaskManager"} : tm' = NewTaskManager(impl)

\* submit_task up to the end of its `with self.lock` block: the task is
\* stored; the lock is released before the id is queued
TMSubmitTask ==
    /\ UNCHANGED nonTaskVars
    /\ tm.impl # "none" /\ tm.lock = 0 /\ tm.submitter.pc = "idle"
    /\ NextTaskId(tm) <= MaxTasks /\ Len(tm.tasks) < MaxObjects
    /\ \E kind \in HandlerKinds :
           tm' = [tm EXCEPT !.tasks = Append(@, NewTask(NextTaskId(tm), kind)),
                            !.submitter = [pc |-> "put", task |-> NextTaskId(tm)]]

\* submit_task, "Add to queue": self.task_queue.put(task_id), outside the
\* lock; submit_task returns
TMSubmitPut ==
    /\ UNCHANGED nonTaskVars
    /\ tm.impl # "none" /\ tm.submitter.pc = "put"
    /\ tm' = [tm EXCEPT !.queue = Append(@, tm.submitter.task),
                        !.submitter = [pc |-> "idle", task |-> 0]]

\* the handler of the task type a saved task carries: the type of the task
\* this manager created under the id, or a type without handler
SavedKind(m, task_id) ==
    IF task_id \in TaskIds(m)
    THEN m.tasks[CHOOSE o \in 1..Len(m.tasks) : m.tasks[o].id = task_id].kind
    ELSE "none"

\* TaskManager.load_state(filepath), for a file that holds one task: saved
\* by this manager at some earlier time (an id this manager created) or by
\* another manager (an id it did not create). Under the lock a new Task is
\* built with the status and the completed_at the file holds (save_state
\* reads them without the lock, so every pair of them can be in a file), and
\* self.tasks[task_id] = task stores it, in the place of the task the table
\* holds under that id, if any; it is not queued
TMLoadState ==
    /\ UNCHANGED nonTaskVars
    /\ tm.impl = "TaskManager" /\ tm.lock = 0
    /\ Len(tm.tasks) < MaxObjects
    /\ \E task_id \in 1..NextTaskId(tm), status \in TaskStatuses, completed_at \in BOOLEAN :
           /\ task_id <= MaxTasks
           /\ tm' = [tm EXCEPT !.tasks =
                         Append([o \in 1..Len(tm.tasks) |->
                                     IF tm.tasks[o].id = task_id
                                     THEN [tm.tasks[o] EXCEPT !.in_table = FALSE]
                                     ELSE tm.tasks[o]],
                                [id |-> task_id, in_table |-> TRUE, status |-> status,
                                 completed_at |-> completed_at,
                                 kind |-> SavedKind(tm, task_id),
                                 origin |-> "load_state", thread |-> "none"])]

\* TaskManager.cleanup_completed_tasks(max_age_hours=0), the clock having
\* advanced since the tasks ended: under the lock every task with
\* completed_at set is removed from the table, whatever its status
TMCleanupCompletedTasks ==
    /\ UNCHANGED nonTaskVars
    /\ tm.impl = "TaskManager" /\ tm.lock = 0
    /\ \E o \in TableObjects(tm) : tm.tasks[o].completed_at
    /\ tm' = [tm EXCEPT !.tasks =
                  [o \in 1..Len(tm.tasks) |->
                       IF tm.tasks[o].completed_at
                       THEN [tm.tasks[o] EXCEPT !.in_table = FALSE]
                       ELSE tm.tasks[o]]]

\* AsyncTaskManager.cleanup_old_tasks(max_age=0), the clock having advanced
\* since the tasks ended: under the lock every task with a terminal status
\* is removed from the table. `current_time - task_result.completed_at`
\* raises TypeError for a terminal task whose completed_at is None (the
\* FAILED of async_with_progress, a task of background_task between its
\* status and its completed_at): the call then removes nothing
TMCleanupOldTasks ==
    /\ UNCHANGED nonTaskVars
    /\ tm.impl = "AsyncTaskManager" /\ tm.lock = 0
    /\ \E o \in TableObjects(tm) : tm.tasks[o].status \in TerminalStatuses
    /\ \A o \in TableObjects(tm) :
           tm.tasks[o].status \in TerminalStatuses => tm.tasks[o].completed_at
    /\ tm' = [tm EXCEPT !.tasks =
                  [o \in 1..Len(tm.tasks) |->
                       IF tm.tasks[o].status \in TerminalStatuses
                       THEN [tm.tasks[o] EXCEPT !.in_table = FALSE]
                       ELSE tm.tasks[o]]]

\* a function decorated with background_task is called: the wrapper stores
\* a PENDING task in global_task_manager.tasks without the lock and starts a
\* thread for it; the task is not queued
BackgroundTaskCall ==
    /\ UNCHANGED nonTaskVars
    /\ tm.impl = "AsyncTaskManager"
    /\ NextTaskId(tm) <= MaxTasks /\ Len(tm.tasks) < MaxObjects
    /\ \E kind \in {"returns", "raises"} :
           tm' = [tm EXCEPT !.tasks =
                      Append(@, [NewTask(NextTaskId(tm), kind)
                                     EXCEPT !.origin = "background_task",
                                            !.thread = "start"])]

\* run_task of background_task, "Mark as running", without the lock and
\* whatever the status is. Every statement of run_task looks the task up as
\* global_task_manager.tasks[task_id]: once the task is removed from the
\* table the statement raises KeyError, so does the except branch, and the
\* thread ends
BackgroundTaskRun(t) ==
    /\ UNCHANGED nonTaskVars
    /\ tm.impl = "AsyncTaskManager"
    /\ t <= Len(tm.tasks) /\ tm.tasks[t].thread = "start"
    /\ tm' = IF tm.tasks[t].in_table
             THEN [tm EXCEPT !.tasks[t] = [TaskStart(@) EXCEPT !.thread = "exec"]]
             ELSE [tm EXCEPT !.tasks[t].thread = "done"]

\* run_task of background_task: the function returns ("Mark as completed")
\* or raises ("Mark as failed"): the status is written, without the lock
\* and whatever it is
BackgroundTaskFinish(t) ==
    /\ UNCHANGED nonTaskVars
    /\ tm.impl = "AsyncTaskManager"
    /\ t <= Len(tm.tasks) /\ tm.tasks[t].thread = "exec"
    /\ tm' = IF tm.tasks[t].in_table
             THEN [tm EXCEPT !.tasks[t].status =
                                 IF tm.tasks[t].kind = "returns" THEN "completed" ELSE "failed",
                             !.tasks[t].thread = "stamp"]
             ELSE [tm EXCEPT !.tasks[t].thread = "done"]

\* run_task of background_task: completed_at is written, in a statement of
\* its own
BackgroundTaskStamp(t) ==
    /\ UNCHANGED nonTaskVars
    /\ tm.impl = "AsyncTaskManager"
    /\ t <= Len(tm.tasks) /\ tm.tasks[t].thread = "stamp"
    /\ tm' = IF tm.tasks[t].in_table
             THEN [tm EXCEPT !.tasks[t] = [TaskStamp(@) EXCEPT !.thread = "done"]]
             ELSE [tm EXCEPT !.tasks[t].thread = "done"]

\* the wrapper of async_with_progress, except branch: the function it wraps
\* raised; under the lock the task the table holds under the task_id the
\* caller passed is marked FAILED, whatever its status is; completed_at is
\* not written
AsyncWithProgressFail ==
    /\ UNCHANGED nonTaskVars
    /\ tm.impl = "AsyncTaskManager" /\ tm.lock = 0
    /\ \E t \in TableObjects(tm) :
           tm' = [tm EXCEPT !.tasks[t].status = "failed"]

\* AsyncTaskManager.stop: is_running is cleared; a worker ends when it next
\* tests it, and stop returns when the workers have ended or its joins have
\* timed out
TMStop ==
    /\ UNCHANGED nonTaskVars
    /\ tm.impl = "AsyncTaskManager" /\ tm.is_running
    /\ tm' = [tm EXCEPT !.is_running = FALSE]

\* the thread records start_workers uses for its max_workers new threads
UnusedWorkers(m) == { w \in Workers : m.workers[w].pc = "none" }
NewWorkers(m) ==
    { w \in UnusedWorkers(m) :
          Cardinality({ v \in UnusedWorkers(m) : v < w }) < MaxWorkers }

\* start_workers: `if not self.is_running`: is_running is set and
\* max_workers new threads are started, whether or not the threads started
\* before have ended; a thread that has not ended finds is_running true at
\* its next test and runs on
TMStartWorkers ==
    /\ UNCHANGED nonTaskVars
    /\ tm.impl # "none" /\ ~tm.is_running
    /\ Cardinality(UnusedWorkers(tm)) >= MaxWorkers
    /\ tm' = [tm EXCEPT !.is_running = TRUE,
                        !.workers = [w \in Workers |->
                                         IF w \in NewWorkers(tm)
                                         THEN [pc |-> "idle", task |-> 0]
                                         ELSE tm.workers[w]]]

\* cancel_task(task_id) for an id in the table. AsyncTaskManager: the lock
\* is taken and `task_result.status in [PENDING, RUNNING]` is tested (the
\* call returns False otherwise); the two assignments follow with the lock
\* held, and the thread of a background_task, which does not take the lock,
\* can write the status in between. TaskManager: get_task, under the lock,
\* gives the task; the tests and Task.cancel follow outside the lock
TMCancelTask ==
    /\ UNCHANGED nonTaskVars
    /\ tm.impl # "none" /\ tm.lock = 0 /\ tm.caller.pc = "idle"
    /\ \E t \in TableObjects(tm) :
           IF tm.impl = "TaskManager"
           THEN tm' = [tm EXCEPT !.caller = [pc |-> "test", task |-> t]]
           ELSE /\ tm.tasks[t].status \in ActiveStatuses
                /\ tm' = [tm EXCEPT !.lock = CallerThread,
                                    !.caller = [pc |-> "locked_set", task |-> t]]

\* cancel_task of AsyncTaskManager, under the lock:
\* task_result.status = TaskStatus.CANCELLED, whatever the status is by now
TMCancelSet ==
    /\ UNCHANGED nonTaskVars
    /\ tm.impl = "AsyncTaskManager" /\ tm.caller.pc = "locked_set"
    /\ tm' = [tm EXCEPT !.tasks[tm.caller.task].status = "cancelled",
                        !.caller.pc = "locked_stamp"]

\* cancel_task of AsyncTaskManager, under the lock:
\* task_result.completed_at = time.time(); the lock is released and the
\* call returns True
TMCancelStamp ==
    /\ UNCHANGED nonTaskVars
    /\ tm.impl = "AsyncTaskManager" /\ tm.caller.pc = "locked_stamp"
    /\ tm' = [tm EXCEPT !.tasks[tm.caller.task] = TaskStamp(@),
                        !.lock = 0,
                        !.caller = [pc |-> "idle", task |-> 0]]

\* cancel_task of TaskManager: `task.status in [PENDING, RUNNING]`, outside
\* the lock; returns False otherwise
TMCancelTest ==
    /\ UNCHANGED nonTaskVars
    /\ tm.impl = "TaskManager" /\ tm.caller.pc = "test"
    /\ tm' = IF tm.tasks[tm.caller.task].status \in ActiveStatuses
             THEN [tm EXCEPT !.caller.pc = "cancel"]
             ELSE [tm EXCEPT !.caller = [pc |-> "idle", task |-> 0]]

\* Task.cancel of TaskManager, the test of the status (outside the lock)
TMTaskCancelTest ==
    /\ UNCHANGED nonTaskVars
    /\ tm.impl = "TaskManager" /\ tm.caller.pc = "cancel"
    /\ tm' = IF tm.tasks[tm.caller.task].status \in ActiveStatuses
             THEN [tm EXCEPT !.caller.pc = "cancel_set"]
             ELSE [tm EXCEPT !.caller = [pc |-> "idle", task |-> 0]]

\* Task.cancel of TaskManager, self.status = TaskStatus.CANCELLED
TMTaskCancelSet ==
    /\ UNCHANGED nonTaskVars
    /\ tm.impl = "TaskManager" /\ tm.caller.pc = "cancel_set"
    /\ tm' = [tm EXCEPT !.tasks[tm.caller.task].status = "cancelled",
                        !.caller.pc = "cancel_stamp"]

\* Task.cancel of TaskManager, self.completed_at = time.time(); cancel_task
\* returns True
TMTaskCancelStamp ==
    /\ UNCHANGED nonTaskVars
    /\ tm.impl = "TaskManager" /\ tm.caller.pc = "cancel_stamp"
    /\ tm' = [tm EXCEPT !.tasks[tm.caller.task] = TaskStamp(@),
                        !.caller = [pc |-> "idle", task |-> 0]]

\* _worker_loop, the test of `while self.is_running`: the worker calls
\* self.task_queue.get(timeout=1), or leaves the loop and the thread ends
WorkerLoop(w) ==
    /\ UNCHANGED nonTaskVars
    /\ tm.impl # "none"
    /\ tm.workers[w].pc = "idle"
    /\ tm' = [tm EXCEPT !.workers[w].pc = IF tm.is_running THEN "get" ELSE "none"]

\* _worker_loop: task_id = self.task_queue.get(timeout=1) returns an id
WorkerGet(w) ==
    /\ UNCHANGED nonTaskVars
    /\ tm.impl # "none"
    /\ tm.workers[w].pc = "get" /\ tm.queue # <<>>
    /\ tm' = [tm EXCEPT !.workers[w] = [pc |-> "got", task |-> Head(tm.queue)],
                        !.queue = Tail(@)]

\* _worker_loop: the queue stayed empty for the timeout, get raises
\* queue.Empty and the loop continues at its test
WorkerEmpty(w) ==
    /\ UNCHANGED nonTaskVars
    /\ tm.impl # "none"
    /\ tm.workers[w].pc = "get" /\ tm.queue = <<>>
    /\ tm' = [tm EXCEPT !.workers[w].pc = "idle"]

\* _worker_loop, under the lock: `if task_id not in self.tasks: continue`;
\* a cancelled task is skipped; otherwise the task is marked running
\* (AsyncTaskManager, in the same step) or is about to be started with the
\* lock still held (TaskManager)
WorkerTake(w) ==
    /\ UNCHANGED nonTaskVars
    /\ tm.impl # "none" /\ tm.workers[w].pc = "got" /\ tm.lock = 0
    /\ LET t == TableObject(tm, tm.workers[w].task)
       IN tm' = IF t = 0
                THEN [tm EXCEPT !.workers[w] = [pc |-> "idle", task |-> 0]]
                ELSE IF tm.tasks[t].status = "cancelled"
                THEN [tm EXCEPT !.workers[w] = [pc |-> "idle", task |-> 0]]
                ELSE IF tm.impl = "AsyncTaskManager"
                THEN [tm EXCEPT !.tasks[t] = TaskStart(@),
                                !.workers[w] = [pc |-> "exec", task |-> t]]
                ELSE [tm EXCEPT !.lock = w,
                                !.workers[w] = [pc |-> "start", task |-> t]]

\* _worker_loop of TaskManager: task.start(), and the lock is released
WorkerStart(w) ==
    /\ UNCHANGED nonTaskVars
    /\ tm.impl = "TaskManager" /\ tm.workers[w].pc = "start"
    /\ tm' = [tm EXCEPT !.tasks[tm.workers[w].task] = TaskStart(@),
                        !.lock = 0, !.workers[w].pc = "exec"]

\* _execute_task up to the return of the handler. Without a handler
\* TaskManager fails the task at once, outside the lock (Task.fail, the
\* status), and AsyncTaskManager raises ValueError into its except branch
WorkerExecute(w) ==
    /\ UNCHANGED nonTaskVars
    /\ tm.impl # "none" /\ tm.workers[w].pc = "exec"
    /\ LET t == tm.workers[w].task
       IN tm' = IF tm.tasks[t].kind = "returns"
                THEN [tm EXCEPT !.workers[w].pc = "check"]
                ELSE IF tm.tasks[t].kind = "none" /\ tm.impl = "TaskManager"
                THEN [tm EXCEPT !.tasks[t].status = "failed",
                                !.workers[w].pc = "fail_stamp"]
                ELSE [tm EXCEPT !.workers[w].pc = "failing"]

\* _execute_task of TaskManager without a handler: Task.fail, completed_at,
\* outside the lock; _execute_task returns
WorkerFailStamp(w) ==
    /\ UNCHANGED nonTaskVars
    /\ tm.impl = "TaskManager" /\ tm.workers[w].pc = "fail_stamp"
    /\ tm' = [tm EXCEPT !.tasks[tm.workers[w].task] = TaskStamp(@),
                        !.workers[w] = [pc |-> "idle", task |-> 0]]

\* _execute_task, under the lock: "Check if task was cancelled during
\* execution"
WorkerCheckCancelled(w) ==
    /\ UNCHANGED nonTaskVars
    /\ tm.impl # "none" /\ tm.workers[w].pc = "check" /\ tm.lock = 0
    /\ tm' = IF tm.tasks[tm.workers[w].task].status = "cancelled"
             THEN [tm EXCEPT !.workers[w] = [pc |-> "idle", task |-> 0]]
             ELSE [tm EXCEPT !.workers[w].pc = "complete"]

\* _execute_task, under the lock again: the task is marked completed.
\* AsyncTaskManager: status and completed_at are written with the lock held,
\* which every other access to a queued task takes. TaskManager: the lock is
\* taken and Task.complete writes self.status = TaskStatus.COMPLETED;
\* Task.cancel and save_state, which take no lock, run before the next
\* statement
WorkerComplete(w) ==
    /\ UNCHANGED nonTaskVars
    /\ tm.impl # "none" /\ tm.workers[w].pc = "complete" /\ tm.lock = 0
    /\ tm' = IF tm.impl = "AsyncTaskManager"
             THEN [tm EXCEPT !.tasks[tm.workers[w].task] = TaskComplete(@),
                             !.workers[w] = [pc |-> "idle", task |-> 0]]
             ELSE [tm EXCEPT !.tasks[tm.workers[w].task].status = "completed",
                             !.lock = w,
                             !.workers[w].pc = "complete_stamp"]

\* Task.complete of TaskManager, under the lock: self.completed_at =
\* time.time() (and the result); the lock is released
WorkerCompleteStamp(w) ==
    /\ UNCHANGED nonTaskVars
    /\ tm.impl = "TaskManager" /\ tm.workers[w].pc = "complete_stamp"
    /\ tm' = [tm EXCEPT !.tasks[tm.workers[w].task] = TaskStamp(@),
                        !.lock = 0,
                        !.workers[w] = [pc |-> "idle", task |-> 0]]

\* _execute_task, except branch, under the lock: the task is marked failed.
\* AsyncTaskManager: status and completed_at are written with the lock held.
\* TaskManager: the lock is taken and Task.fail writes self.status =
\* TaskStatus.FAILED; Task.cancel and save_state, which take no lock, run
\* before the next statement
WorkerFail(w) ==
    /\ UNCHANGED nonTaskVars
    /\ tm.impl # "none" /\ tm.workers[w].pc = "failing" /\ tm.lock = 0
    /\ tm' = IF tm.impl = "AsyncTaskManager"
             THEN [tm EXCEPT !.tasks[tm.workers[w].task] = TaskFail(@),
                             !.workers[w] = [pc |-> "idle", task |-> 0]]
             ELSE [tm EXCEPT !.tasks[tm.workers[w].task].status = "failed",
                             !.lock = w,
                             !.workers[w].pc = "failing_stamp"]

\* Task.fail of TaskManager in the except branch, under the lock:
\* self.completed_at = time.time() (and the result); the lock is released
WorkerFailLockedStamp(w) ==
    /\ UNCHANGED nonTaskVars
    /\ tm.impl = "TaskManager" /\ tm.workers[w].pc = "failing_stamp"
    /\ tm' = [tm EXCEPT !.tasks[tm.workers[w].task] = TaskStamp(@),
                        !.lock = 0,
                        !.workers[w] = [pc |-> "idle", task |-> 0]]

\* one step of worker thread w
WorkerStep(w) ==
    \/ WorkerLoop(w)
    \/ WorkerGet(w)
    \/ WorkerEmpty(w)
    \/ WorkerTake(w)
    \/ WorkerStart(w)
    \/ WorkerExecute(w)
    \/ WorkerFailStamp(w)
    \/ WorkerCheckCancelled(w)
    \/ WorkerComplete(w)
    \/ WorkerCompleteStamp(w)
    \/ WorkerFail(w)
    \/ WorkerFailLockedStamp(w)

NextTasks ==
    \/ TMConstruct
    \/ TMSubmitTask
    \/ TMSubmitPut
    \/ TMLoadState
    \/ TMCleanupCompletedTasks
    \/ TMCleanupOldTasks
    \/ BackgroundTaskCall
    \/ \E t \in 1..MaxObjects : BackgroundTaskRun(t)
    \/ \E t \in 1..MaxObjects : BackgroundTaskFinish(t)
    \/ \E t \in 1..MaxObjects : BackgroundTaskStamp(t)
    \/ AsyncWithProgressFail
    \/ TMStop
    \/ TMStartWorkers
    \/ TMCancelTask
    \/ TMCancelSet
    \/ TMCancelStamp
    \/ TMCancelTest
    \/ TMTaskCancelTest
    \/ TMTaskCancelSet
    \/ TMTaskCancelStamp
    \/ \E w \in Workers : WorkerLoop(w)
    \/ \E w \in Workers : WorkerGet(w)
    \/ \E w \in Workers : WorkerEmpty(w)
    \/ \E w \in Workers : WorkerTake(w)
    \/ \E w \in Workers : WorkerStart(w)
    \/ \E w \in Workers : WorkerExecute(w)
    \/ \E w \in Workers : WorkerFailStamp(w)
    \/ \E w \in Workers : WorkerCheckCancelled(w)
    \/ \E w \in Workers : WorkerComplete(w)
    \/ \E w \in Workers : WorkerCompleteStamp(w)
    \/ \E w \in Workers : WorkerFail(w)
    \/ \E w \in Workers : WorkerFailLockedStamp(w)

SpecTasks == Idle /\ [][NextTasks]_vars

\* the worker threads are daemon threads that keep running, the thread
\* inside submit_task runs on to its put, and the thread that holds the lock
\* in cancel_task runs on to its release: a thread that can take a step
\* eventually takes one. No call is ever bound to be made
SpecTasksFair ==
    /\ SpecTasks
    /\ \A w \in Workers : WF_vars(WorkerStep(w))
    /\ WF_vars(TMSubmitPut)
    /\ WF_vars(TMCancelSet)
    /\ WF_vars(TMCancelStamp)

----------------------------------------------------------------------------
(* Array ids in the collections of one Beamformer and one BeamformingEngine *)

MaxIdArrays == 2

\* f"array_{len(self.arrays)}" for len(self.arrays) = 0, 1, 2
GeneratedArrayIds == <<"array_0", "array_1", "array_2">>

\* ids a caller passes to the engine and to PhasedArray
CallerArrayIds == {"array_1", "A"}

\* BeamformingEngine.add_array, "Generate array ID if not provided":
\* has_id tells whether the configuration carries the key 'array_id'
EngineGenerateArrayId(e, array_config, has_id) ==
    IF has_id THEN array_config
    ELSE [array_config EXCEPT !.array_id = Some(GeneratedArrayIds[Len(e.arrays) + 1])]

\* the ids of a sequence of arrays, in order
ArrayIdsOf(arrays) == [k \in 1..Len(arrays) |-> arrays[k].array_id]

IdsBeamformerAddArray ==
    /\ UNCHANGED nonBFVars
    /\ Len(bf.arrays) < MaxIdArrays
    /\ \E id \in CallerArrayIds :
           LET res == BFAddArray(bf, NewPhasedArray(1, 1, "linear", 0, <<0, 0>>, 90, id))
           IN /\ bf' = res.obj
              /\ bf_ret' = MRet("add_array", id, res.raised, res.value)

IdsEngineAddArray ==
    /\ UNCHANGED <<nonEngineVars, sim>>
    /\ Len(engine.arrays) < MaxIdArrays
    /\ \E id \in CallerArrayIds, has_id \in BOOLEAN :
           LET given == [type |-> "linear", num_elements |-> 1, spacing |-> 1,
                         position |-> <<0, 0>>, orientation |-> 0, curvature |-> 0,
                         delays |-> Some(<<>>), amplitudes |-> Some(<<>>), enabled |-> TRUE,
                         array_id |-> IF has_id THEN Some(id) ELSE NoArg]
           IN engine' = EngineAddArray(engine, EngineGenerateArrayId(engine, given, has_id))

IdsEngineClearSimulation ==
    /\ UNCHANGED <<nonEngineVars, sim>>
    /\ engine' = EngineClearSimulation(engine)

NextArrayIds ==
    \/ IdsBeamformerAddArray
    \/ BRemoveArray
    \/ BClearArrays
    \/ IdsEngineAddArray
    \/ IdsEngineClearSimulation

SpecArrayIds == Idle /\ [][NextArrayIds]_vars

----------------------------------------------------------------------------
(* backend preset scenarios: src/backend/core/beamforming/scenarios.py     *)
(* A scenario carries name, description, parameters and the title of its   *)
(* display settings; of its arrays the model carries the array ids.        *)
(* Built-in frequencies are in kHz and field sizes in cm; a saved scenario *)
(* carries the values of the Beamformer it was saved from. A file holds    *)
(* the scenario that json.dump wrote; json.load gives it back with tuples  *)
(* as lists, which the model does not tell apart.                          *)

\* SCENARIOS
BuiltinScenarios ==
    [s \in {"5g_mimo", "ultrasound_imaging", "tumor_ablation"} |->
        CASE s = "5g_mimo" ->
               [name |-> "5G MIMO Base Station",
                description |-> "Massive MIMO antenna array for 5G wireless communication",
                parameters |-> [frequencies |-> <<3500000>>, speed |-> 300000000,
                                field_size |-> <<200, 200>>, resolution |-> 200],
                arrays |-> <<"5g_main">>,
                title |-> "5G MIMO Beam Pattern"]
          [] s = "ultrasound_imaging" ->
               [name |-> "Ultrasound Medical Imaging",
                description |-> "Curved array ultrasound transducer for medical imaging",
                parameters |-> [frequencies |-> <<5000>>, speed |-> 1540,
                                field_size |-> <<10, 15>>, resolution |-> 200],
                arrays |-> <<"ultrasound_probe">>,
                title |-> "Ultrasound Beam Pattern"]
          [] s = "tumor_ablation" ->
               [name |-> "Tumor Ablation HIFU",
                description |-> "High-Intensity Focused Ultrasound for tumor ablation therapy",
                parameters |-> [frequencies |-> <<1000, 1500>>, speed |-> 1540,
                                field_size |-> <<8, 12>>, resolution |-> 200],
                arrays |-> <<"hifu_main", "hifu_secondary">>,
                title |-> "HIFU Ablation Pattern"]]

\* ScenarioManager.__init__ on a directory that holds the given files:
\* custom_scenarios_dir is None (has_dir FALSE) or the directory, whose
\* files are loaded if it exists
NewScenarios(has_dir, dir_exists, files) ==
    [has_dir |-> has_dir,
     custom |-> IF has_dir /\ dir_exists THEN files ELSE <<>>]

\* ScenarioManager.get_scenario: the built-in scenarios are looked up first
ScenariosGetScenario(m, scenario_id) ==
    IF scenario_id \in DOMAIN BuiltinScenarios
    THEN Some(BuiltinScenarios[scenario_id])
    ELSE IF scenario_id \in DOMAIN m.custom
    THEN Some(m.custom[scenario_id])
    ELSE None

\* the dictionary that save_scenario builds
ScenarioOf(name, description, beamformer) ==
    [name |-> name,
     description |-> description,
     parameters |-> [frequencies |-> beamformer.frequencies, speed |-> beamformer.speed,
                     field_size |-> beamformer.field_size,
                     resolution |-> beamformer.resolution],
     arrays |-> ArrayIdsOf(beamformer.arrays),
     title |-> name]

\* ScenarioManager.save_scenario: without a directory nothing is saved and
\* the value is False; otherwise the file is written and the scenario is
\* stored under its id
ScenariosSaveScenario(m, files, scenario_id, name, description, beamformer) ==
    IF ~m.has_dir
    THEN [obj |-> m, files |-> files, wrote |-> FALSE, value |-> FALSE]
    ELSE LET saved == ScenarioOf(name, description, beamformer)
         IN [obj |-> [m EXCEPT !.custom =
                         [k \in DOMAIN m.custom \cup {scenario_id} |->
                             IF k = scenario_id THEN saved ELSE m.custom[k]]],
             files |-> [k \in DOMAIN files \cup {scenario_id} |->
                           IF k = scenario_id THEN saved ELSE files[k]],
             wrote |-> TRUE, value |-> TRUE]

\* ScenarioManager.delete_custom_scenario
ScenariosDeleteCustom(m, files, scenario_id) ==
    IF scenario_id \notin DOMAIN m.custom
    THEN [obj |-> m, files |-> files, value |-> FALSE]
    ELSE [obj |-> [m EXCEPT !.custom = [k \in DOMAIN m.custom \ {scenario_id} |-> m.custom[k]]],
          files |-> IF m.has_dir
                    THEN [k \in DOMAIN files \ {scenario_id} |-> files[k]]
                    ELSE files,
          value |-> TRUE]

(* SpecScenarios: callers of one scenarios.ScenarioManager at a time on    *)
(* one custom scenarios directory                                          *)

PresetScenarioIds == {"tumor_ablation", "mine"}
ScenarioDisplayNames == {"Mine", "Tumor Ablation HIFU"}
ScenarioBeamformers ==
    { NewBeamformer(frequencies, 1, <<20, 20>>, 2) : frequencies \in {<<1>>, <<1, 2>>} }

ScnsConstruct ==
    /\ UNCHANGED nonScenariosVars
    /\ \E has_dir \in BOOLEAN :
           scns' = [constructed |-> TRUE, dir_exists |-> scns.dir_exists,
                    files |-> scns.files,
                    obj |-> NewScenarios(has_dir, scns.dir_exists, scns.files),
                    ret |-> [op |-> "__init__"]]

ScnsSaveScenario ==
    /\ UNCHANGED nonScenariosVars
    /\ scns.constructed
    /\ \E scenario_id \in PresetScenarioIds, name \in ScenarioDisplayNames,
          beamformer \in ScenarioBeamformers :
           LET res == ScenariosSaveScenario(scns.obj, scns.files, scenario_id, name,
                                            "saved", beamformer)
           IN scns' = [scns EXCEPT
                  !.obj = res.obj, !.files = res.files,
                  !.dir_exists = scns.dir_exists \/ res.wrote,
                  !.ret = [op |-> "save_scenario", scenario_id |-> scenario_id,
                           saved |-> ScenarioOf(name, "saved", beamformer),
                           value |-> res.value]]

ScnsGetScenario ==
    /\ UNCHANGED nonScenariosVars
    /\ scns.constructed
    /\ \E scenario_id \in PresetScenarioIds \cup {"missing"} :
           scns' = [scns EXCEPT
                  !.ret = [op |-> "get_scenario", scenario_id |-> scenario_id,
                           value |-> ScenariosGetScenario(scns.obj, scenario_id)]]

ScnsDeleteCustomScenario ==
    /\ UNCHANGED nonScenariosVars
    /\ scns.constructed
    /\ \E scenario_id \in PresetScenarioIds :
           LET res == ScenariosDeleteCustom(scns.obj, scns.files, scenario_id)
           IN scns' = [scns EXCEPT
                  !.obj = res.obj, !.files = res.files,
                  !.ret = [op |-> "delete_custom_scenario", scenario_id |-> scenario_id,
                           value |-> res.value]]

NextScenarios ==
    \/ ScnsConstruct
    \/ ScnsSaveScenario
    \/ ScnsGetScenario
    \/ ScnsDeleteCustomScenario

SpecScenarios == Idle /\ [][NextScenarios]_vars

----------------------------------------------------------------------------
(* SpecUpdate: callers of add_array and update_array_parameter on one      *)
(* BeamformingEngine, and the route update_array that writes its arrays    *)

MaxUpdArrays == 1

UpdateArrayIds == (0 - MaxUpdArrays - 1)..MaxUpdArrays

\* pairs of a parameter name and a value for it; "type" and "colour" are not
\* updatable
UpdateInputs ==
    {<<"position", <<1, 0>>>>, <<"orientation", 90>>, <<"num_elements", 2>>,
     <<"enabled", FALSE>>, <<"type", "rectangular">>, <<"colour", 1>>}

\* the <array_id> of PUT /array/<array_id>: a decimal string, or a name
UpdateArrayNames ==
    { [kind |-> "int", int |-> array_id, name |-> ""] : array_id \in UpdateArrayIds }
        \cup { [kind |-> "name", int |-> 0, name |-> "x"] }

\* JSON bodies of PUT /array/<array_id>: no key, a type, a list of element
\* positions (9, 9 in metres), an array_id, and a position together with a
\* key no array has
UpdateBodies ==
    { [key \in {} |-> 0],
      [type |-> "rectangular"],
      [element_positions |-> <<<<36, 36>>>>],
      [array_id |-> Some("x")],
      [position |-> <<1, 0>>, colour |-> 1] }

UpdAddArray ==
    /\ UNCHANGED nonUpdateVars
    /\ Len(upd.e.arrays) < MaxUpdArrays
    /\ \E array_config \in ArrayConfigs :
           upd' = [e |-> EngineAddArray(upd.e, array_config),
                   ret |-> [op |-> "add_array"]]

UpdUpdateArrayParameter ==
    /\ UNCHANGED nonUpdateVars
    /\ \E array_id \in UpdateArrayIds, input \in UpdateInputs :
           LET res == EngineUpdateArrayParameter(upd.e, array_id, input[1], input[2])
           IN upd' = [e |-> res.obj,
                      ret |-> [op |-> "update_array_parameter", array_id |-> array_id,
                               parameter |-> input[1], raised |-> res.raised,
                               value |-> res.value, before |-> upd.e.arrays]]

\* PUT /array/<array_id>
UpdUpdateArray ==
    /\ UNCHANGED nonUpdateVars
    /\ \E array_id \in UpdateArrayNames, data \in UpdateBodies :
           LET res == UpdateArray(upd.e, array_id, data)
           IN upd' = [e |-> res.obj,
                      ret |-> [op |-> "update_array", status |-> res.status]]

NextUpdate ==
    \/ UpdAddArray
    \/ UpdUpdateArrayParameter
    \/ UpdUpdateArray

SpecUpdate == Idle /\ [][NextUpdate]_vars

----------------------------------------------------------------------------
(* SpecSimulator: callers of one backend_pt2 BeamformingSimulator.         *)
(* Speeds and frequencies are chosen so that every wavelength is a whole   *)
(* number; element_spacing is in halves of the unit of the wavelength, and *)
(* a spacing in wavelengths is given in halves (1 is the default 0.5).     *)
(* configured is the spacing in wavelengths that the caller configured     *)
(* last, by the constructor or by update_parameters.                       *)

Sim2Frequencies == {1, 2}
Sim2Speeds == {2, 4}
Sim2Spacings == {1, 2, 3}
Sim2BeamAngles == {0, 30}

\* the keyword arguments of update_parameters
Sim2Kwargs ==
    [num_elements : {None, Some(4)},
     frequency : Opt(Sim2Frequencies),
     beam_angle : Opt(Sim2BeamAngles),
     array_type : {None, Some("Curved")},
     element_spacing : Opt(Sim2Spacings),
     mode : {None}]

Sim2Construct ==
    /\ UNCHANGED nonSimulatorVars
    /\ \E frequency \in Sim2Frequencies, element_spacing \in Opt(Sim2Spacings) :
           LET res == NewPt2Simulator(2, frequency, element_spacing, 0, "transmitter")
           IN sim2' = [constructed |-> TRUE, obj |-> res.obj.val,
                       configured |-> IF element_spacing.given THEN element_spacing.val ELSE 1,
                       ret |-> [op |-> "__init__", raised |-> res.raised]]

Sim2UpdateParameters ==
    /\ UNCHANGED nonSimulatorVars
    /\ sim2.constructed
    /\ \E kw \in Sim2Kwargs :
           LET res == Pt2UpdateParameters(sim2.obj, kw)
           IN sim2' = [sim2 EXCEPT
                  !.obj = res.obj,
                  !.configured = IF kw.element_spacing.given
                                 THEN kw.element_spacing.val ELSE @,
                  !.ret = [op |-> "update_parameters", raised |-> res.raised]]

Sim2SetPropagationSpeed ==
    /\ UNCHANGED nonSimulatorVars
    /\ sim2.constructed
    /\ \E speed \in Sim2Speeds :
           LET res == Pt2SetPropagationSpeed(sim2.obj, speed)
           IN sim2' = [sim2 EXCEPT
                  !.obj = res.obj,
                  !.ret = [op |-> "set_propagation_speed", raised |-> res.raised]]

Sim2SetBeamAngle ==
    /\ UNCHANGED nonSimulatorVars
    /\ sim2.constructed
    /\ \E angle \in Sim2BeamAngles :
           LET res == Pt2SetBeamAngle(sim2.obj, angle)
           IN sim2' = [sim2 EXCEPT
                  !.obj = res.obj,
                  !.ret = [op |-> "set_beam_angle", raised |-> res.raised]]

NextSimulator ==
    \/ Sim2Construct
    \/ Sim2UpdateParameters
    \/ Sim2SetPropagationSpeed
    \/ Sim2SetBeamAngle

SpecSimulator == Idle /\ [][NextSimulator]_vars

----------------------------------------------------------------------------
(* Claims about the backend PhasedArray, checked under Spec *)

\* C1: the element table of an array always has exactly num_elements entries:
\* the positions, the phase shifts and the amplitudes each have length N.
C1_ElementTableLengthN ==
    /\ Len(pa.element_positions) = pa.num_elements
    /\ Len(pa.phase_shifts) = pa.num_elements
    /\ Len(pa.amplitudes) = pa.num_elements

\* the array as its constructor leaves it for the current configuration
FreshArray ==
    NewPhasedArray(pa.num_elements, pa.element_spacing, pa.geometry,
                   pa.curvature_radius, pa.position, pa.orientation, pa.array_id)

\* what the last phase-assignment call produces on its own, on a fresh array
LastCallAlone ==
    CASE pa_ret.op = "set_steering_angle" ->
            SetSteeringAngle(FreshArray, pa_ret.arg[1], pa_ret.arg[2], pa_ret.arg[3]).obj
      [] pa_ret.op = "set_focus_point" ->
            SetFocusPoint(FreshArray, pa_ret.arg[1], pa_ret.arg[2], pa_ret.arg[3]).obj
      [] pa_ret.op = "set_custom_phases" -> SetCustomPhases(FreshArray, pa_ret.arg).obj
      [] pa_ret.op = "set_uniform_phase" -> SetUniformPhase(FreshArray, pa_ret.arg).obj

PhaseAssignments ==
    {"set_steering_angle", "set_focus_point", "set_custom_phases", "set_uniform_phase"}

\* C5: phase-assignment modes are mutually exclusive and the last assignment
\* wins: after a successful set_steering_angle, set_focus_point,
\* set_custom_phases or set_uniform_phase call the phase shifts are those the
\* call alone produces, and no state of an earlier mode (the focusing delays)
\* remains set.
C5_LastAssignmentWins ==
    (pa_ret.op \in PhaseAssignments /\ ~pa_ret.raised) =>
        /\ pa.phase_shifts = LastCallAlone.phase_shifts
        /\ pa.delays = LastCallAlone.delays

C6_Step ==
    /\ pa_ret'.op = "set_custom_phases" =>
          /\ pa_ret'.raised <=> (Len(pa_ret'.arg) # pa.num_elements)
          /\ pa_ret'.raised => pa' = pa
          /\ ~pa_ret'.raised =>
                /\ pa'.phase_shifts = pa_ret'.arg
                /\ Len(pa'.phase_shifts) = pa'.num_elements
                /\ pa'.amplitudes = pa.amplitudes
    /\ pa_ret'.op = "set_custom_amplitudes" =>
          /\ pa_ret'.raised <=> (Len(pa_ret'.arg) # pa.num_elements)
          /\ pa_ret'.raised => pa' = pa
          /\ ~pa_ret'.raised =>
                /\ pa'.amplitudes = pa_ret'.arg
                /\ Len(pa'.amplitudes) = pa'.num_elements
                /\ pa'.phase_shifts = pa.phase_shifts

\* C6: set_custom_phases and set_custom_amplitudes on an array of N elements
\* raise exactly when the given sequence does not have N entries, and then
\* leave the phases and amplitudes unchanged; with exactly N entries the call
\* succeeds and the stored table equals the given sequence.
C6_CustomLengthValidated == [][C6_Step]_vars

\* a set_custom_amplitudes call with one entry too many has raised
C6_Witness ==
    /\ pa_ret.op = "set_custom_amplitudes"
    /\ pa_ret.raised
    /\ Len(pa_ret.arg) = pa.num_elements + 1

----------------------------------------------------------------------------
(* Claims about the backend MultiArraySystem, checked under SpecMulti *)

\* C3: no compute entry point mutates its inputs: compute_combined_pattern
\* leaves every array's positions, phase shifts and amplitudes exactly as they
\* were before the call, for every argument value.
C3_ComputeLeavesArraysUnchanged ==
    [][mas_ret'.op = "compute_combined_pattern" => mas'.arrays = mas.arrays]_vars

C7_Step ==
    mas_ret'.op = "compute_combined_pattern" =>
        /\ (Len(mas_ret'.arg) # Len(mas.arrays)) => mas_ret'.raised
        /\ mas_ret'.raised =>
              \A k \in 1..Len(mas.arrays) :
                  /\ Len(mas'.arrays) = Len(mas.arrays)
                  /\ mas'.arrays[k].phase_shifts = mas.arrays[k].phase_shifts

\* C7: compute_combined_pattern raises whenever the number of supplied
\* steering angles differs from the number of arrays, and when it raises no
\* array's phase shifts have been modified.
C7_AngleCountValidated == [][C7_Step]_vars

\* a call with more steering angles than arrays has raised, on a system that
\* holds an array whose phases steering would have changed
C7_Witness ==
    /\ mas_ret.op = "compute_combined_pattern"
    /\ mas_ret.raised
    /\ Len(mas_ret.arg) > Len(mas.arrays)
    /\ \E k \in 1..Len(mas.arrays) :
           SetSteeringAngle(mas.arrays[k], mas_ret.arg[k], PatternFrequency, PatternSpeed).obj
               # mas.arrays[k]

----------------------------------------------------------------------------
(* Claims about the backend Beamformer, checked under SpecBeamformer *)

\* C2: after any sequence of Beamformer operations, get_intensity_field and
\* get_phase_field return a field computed from the current configuration
\* (arrays, their phases, frequencies, speed and grid): a stored field is
\* reused only when it was computed from exactly that configuration.
C2_FieldFromCurrentConfiguration ==
    (bf_ret.op \in {"get_intensity_field", "get_phase_field"}) =>
        bf_ret.value.of = InterferenceField(bf)

----------------------------------------------------------------------------
(* Claims about POST /simulate of backend2, checked under SpecEngine *)

RECURSIVE AddArrays(_, _)
AddArrays(e, configs) ==
    IF configs = <<>> THEN e ELSE AddArrays(EngineAddArray(e, Head(configs)), Tail(configs))

\* the engine a request sets up when nothing else touches it
OwnEngine(request) ==
    [AddArrays(NewEngine, request.arrays) EXCEPT !.sources = request.sources]

\* what compute_beam_pattern gives on the request's own arrays
OwnBeamPattern(request) ==
    EngineComputeBeamPattern(OwnEngine(request), request.frequencies, request.steering_angle,
                             request.grid_size, request.grid_range)

\* C4: when two simulation requests are processed concurrently, the result of
\* each is computed from exactly the arrays and sources of its own request:
\* under no interleaving does a request's computation see arrays or sources
\* added or cleared by the other. Stated for the requests of POST /simulate
\* alone (no POST /steer or POST /clear has been made): the pattern
\* compute_beam_pattern returns to a job is the one its own arrays give, and
\* a job fails with the error of compute_beam_pattern only if the pattern of
\* its own arrays raises.
C4_RequestsIsolated ==
    (\A s \in 1..MaxRequests : sim[s].pc # "idle" => sim[s].op = "simulate") =>
        \A r \in 1..MaxRequests :
            (sim[r].pc # "idle") =>
                /\ sim[r].beam_pattern.given =>
                      /\ ~OwnBeamPattern(sim[r].request).raised
                      /\ sim[r].beam_pattern = Some(OwnBeamPattern(sim[r].request).value)
                /\ (sim[r].exc = "compute_beam_pattern")
                       => OwnBeamPattern(sim[r].request).raised

----------------------------------------------------------------------------
(* Claims about the backend2 array model, checked under SpecModel *)

\* C8: phase, delay and amplitude assignment is wholesale: apply_delays either
\* sets the delay and the phase of all N elements from the given list or
\* changes no element; it never updates some elements while leaving the
\* others with the values they had before the call.
C8_AssignmentWholesale ==
    [][am_ret'.op = "apply_delays" =>
          \/ am'.val.elements = am.val.elements
          \/ \A i \in 1..Len(am'.val.elements) :
                 /\ i <= Len(am_ret'.arg)
                 /\ am'.val.elements[i].delay = am_ret'.arg[i]
                 /\ am'.val.elements[i].phase
                        = DelayPhase(am'.val.frequency, am_ret'.arg[i])]_vars

\* C9: in every reachable state the stored wavelength equals the propagation
\* speed divided by the stored frequency (wavelength * frequency = speed),
\* whatever frequency value was given.
C9_WavelengthIsSpeedOverFrequency ==
    am.given => am.val.wavelength.num * am.val.frequency = SpeedOfLight * am.val.wavelength.den

----------------------------------------------------------------------------
(* Claims about scenario validation, checked under SpecScenario *)

\* the record of the last validate_scenario call and its verdict
Validated == scn_ret.op = "validate_scenario"
Rec == scn_ret.arg
OutOfRange ==
    \/ Rec.num_elements.given /\ (Rec.num_elements.val < 2 \/ Rec.num_elements.val > 256)
    \/ Rec.frequency.given /\ Rec.frequency.val <= 0
IsCurved == Rec.array_type.given /\ Lower(Rec.array_type.val) = "curved"

\* C10 as stated: validate_scenario rejects every record in which
\* num_elements < 2 or > 256, or frequency <= 0, or the array type is not one
\* of linear, curved, circular, rectangular, or the array type is curved and
\* the record does not carry a curvature > 0.
C10_AsStated ==
    (/\ Validated
     /\ \/ OutOfRange
        \/ Rec.array_type.given
             /\ Lower(Rec.array_type.val) \notin {"linear", "curved", "circular", "rectangular"}
        \/ IsCurved /\ ~(Rec.curvature_radius.given /\ Rec.curvature_radius.val > 0))
    => ~scn_ret.value.valid

\* C10: validate_scenario rejects every record in which num_elements < 2 or
\* > 256, or frequency <= 0, or the array type is not one of linear, curved,
\* circular, rectangular, or the array type is curved and the record carries
\* a curvature_radius that is not > 0.
C10_RejectsInvalid ==
    (/\ Validated
     /\ \/ OutOfRange
        \/ Rec.array_type.given
             /\ Lower(Rec.array_type.val) \notin {"linear", "curved", "circular", "rectangular"}
        \/ IsCurved /\ Rec.curvature_radius.given /\ Rec.curvature_radius.val <= 0)
    => ~scn_ret.value.valid

\* an otherwise valid curved record with a non-positive curvature_radius was rejected
C10_Witness ==
    /\ Validated
    /\ Rec.name.given /\ Rec.num_elements.given /\ Rec.frequency.given
    /\ ~OutOfRange
    /\ IsCurved /\ Rec.curvature_radius.given /\ Rec.curvature_radius.val <= 0
    /\ ~scn_ret.value.valid

\* the record has a name, 2 <= num_elements <= 256 and frequency > 0
FieldsInRange ==
    /\ Rec.name.given /\ Rec.num_elements.given /\ Rec.frequency.given
    /\ ~OutOfRange

\* C11: validate_scenario accepts every record that has a name,
\* 2 <= num_elements <= 256, frequency > 0, a geometry among linear, curved,
\* circular, rectangular and, when the geometry is curved, a curvature > 0; in
\* particular valid circular and rectangular records are accepted.
C11_AcceptsValid ==
    (/\ Validated
     /\ FieldsInRange
     /\ Rec.array_type.given
     /\ Lower(Rec.array_type.val) \in {"linear", "curved", "circular", "rectangular"}
     /\ IsCurved => (Rec.curvature_radius.given /\ Rec.curvature_radius.val > 0))
    => scn_ret.value.valid

----------------------------------------------------------------------------
(* Claims about the scenario store, checked under SpecStore *)

\* load_scenario gives the same answer for every name on two stores
SameLoads(st1, st2) ==
    \A scenario_name \in StoreNames \cup {d.name.val : d \in DefaultScenarios} :
        LET l1 == LoadScenario(st1, scenario_name)
            l2 == LoadScenario(st2, scenario_name)
        IN /\ l1.given = l2.given
           /\ l1.given => l1.val = l2.val

\* C12: a save_scenario call whose record has no name or fails validation
\* raises an error and creates or overwrites nothing: for every name,
\* load_scenario returns the same result after the call as before it.
C12_FailedSaveWritesNothing ==
    (/\ scn_ret.op = "save_scenario"
     /\ ~scn_ret.arg.name.given \/ ~ValidateScenario(scn_ret.arg).valid)
    => (scn_ret.raised /\ SameLoads(scn_ret.before, store))

\* a record that fails validation was given under the name of a stored
\* scenario, and the call raised
C12_Witness ==
    /\ scn_ret.op = "save_scenario"
    /\ scn_ret.arg.name.given
    /\ FileName(scn_ret.arg.name.val) \in DOMAIN scn_ret.before
    /\ ~ValidateScenario(scn_ret.arg).valid
    /\ scn_ret.raised

\* C13: for every name present in the store, save_scenario(load_scenario(name))
\* succeeds and a following load_scenario(name) returns a record with the
\* same name, num_elements, frequency, array_type and curvature_radius
\* (present or absent alike) as the record loaded before the round trip.
C13_RoundTripKeepsFields ==
    (/\ scn_ret.op = "round_trip"
     /\ FileName(scn_ret.arg) \in DOMAIN scn_ret.before)
    => /\ ~scn_ret.raised
       /\ scn_ret.value[2].given
       /\ \A i \in 1..Len(ScenarioKeys) :
              scn_ret.value[2].val[ScenarioKeys[i]] = scn_ret.value[1].val[ScenarioKeys[i]]

\* a scenario saved by a caller went through the round trip, asked for by a
\* name that is spelled differently from the stored one
C13_Witness ==
    /\ scn_ret.op = "round_trip"
    /\ scn_ret.arg = "tumor ablation"
    /\ FileName(scn_ret.arg) \in DOMAIN scn_ret.before
    /\ scn_ret.value[1].val.num_elements.val = 2
    /\ ~scn_ret.raised

----------------------------------------------------------------------------
(* Claims about the backend2 Scenario, checked under SpecScenarioModel *)

\* C14: for every Scenario of every scenario type, the scenario loaded from
\* what it saved (load_from_file after save_to_file) has the same
\* scenario_id, the same name, and as many sources and arrays as the
\* scenario that was saved.
C14_SaveLoadKeepsIdentity ==
    scenario_ret.op = "save_load" =>
        /\ scenario_ret.value.val.scenario_id = scenario.val.scenario_id
        /\ scenario_ret.value.val.name = scenario.val.name
        /\ Len(scenario_ret.value.val.sources) = Len(scenario.val.sources)
        /\ Len(scenario_ret.value.val.arrays) = Len(scenario.val.arrays)

----------------------------------------------------------------------------
(* Claims about scenario lookup, checked under SpecEngineScenario *)

\* C15: asking the engine for a scenario name that is absent from the store
\* is reported as a lookup miss and never as an exception escaping the
\* engine, and it leaves the engine's arrays and sources unchanged.
C15_MissIsNotAnException ==
    (/\ eng_ret.op = "load_scenario"
     /\ eng_ret.arg \notin DOMAIN eng_files)
    => /\ ~eng_ret.raised
       /\ engine.arrays = eng_ret.before.arrays
       /\ engine.sources = eng_ret.before.sources

----------------------------------------------------------------------------
(* Claims about array_model.PhasedArray, checked under SpecModel *)

\* C16: constructing an array_model.PhasedArray with num_elements = N, N >= 1
\* and any ArrayType, completes without error and yields exactly N elements;
\* after set_frequency(f) the wavelength is 3e8 / f and the array still has
\* exactly N elements.
C16_ConstructionYieldsNElements ==
    /\ am_ret.op = "__init__" =>
           /\ ~am_ret.raised
           /\ am.given
           /\ Len(am.val.elements) = am_ret.arg[2]
    /\ (am_ret.op = "set_frequency" /\ am_ret.arg > 0) =>
           /\ am.val.wavelength.num * am_ret.arg = SpeedOfLight * am.val.wavelength.den
           /\ Len(am.val.elements) = am.val.num_elements

----------------------------------------------------------------------------
(* Claims about the element geometry, checked under SpecGeometry *)

\* a linear array that was constructed with orientation 0 at the origin
LinearAtOrigin ==
    /\ geo.impl # "none" /\ ~geo.raised
    /\ geo.geometry = "linear"
    /\ geo.orientation = 0 /\ geo.position = <<0, 0>>

\* positions[i] = ((i - (N-1)/2) * s, 0) for every i, with s = sp2 / 2 and the
\* positions in quarter units
OnCentredLine(positions, n, sp2) ==
    /\ Len(positions) = n
    /\ \A i \in 1..n : positions[i] = <<(2 * (i - 1) - (n - 1)) * sp2, 0>>

\* C17 as stated, with s the spacing the caller gave: a linear array of N
\* elements at the origin with orientation 0 has positions[i].x =
\* (i - (N-1)/2) * s and positions[i].y = 0 in every implementation.
\* backend_pt2 multiplies the spacing it is given by the wavelength.
C17_AsStated ==
    (LinearAtOrigin /\ geo.spacing_arg.given)
        => /\ geo.positions.given
           /\ OnCentredLine(geo.positions.val, geo.num_elements, geo.spacing_arg.val)

\* C17, amended: with s the element_spacing attribute of the constructed
\* array (for backend_pt2 the spacing given, in wavelengths, times the
\* wavelength, or half a wavelength when none is given), positions[i].x =
\* (i - (N-1)/2) * s and positions[i].y = 0 for every i in 0..N-1, in
\* every implementation that constructs a linear array.
C17_LinearFormula ==
    LinearAtOrigin
        => /\ geo.positions.given
           /\ OnCentredLine(geo.positions.val, geo.num_elements, geo.spacing)

\* a backend_pt2 linear array of several elements whose wavelength is not 1,
\* laid out on the centred line with pitch element_spacing
C17_Witness ==
    /\ LinearAtOrigin
    /\ geo.impl = "backend_pt2"
    /\ geo.num_elements >= 3
    /\ geo.spacing_arg.given /\ geo.spacing # geo.spacing_arg.val
    /\ geo.positions.given
    /\ OnCentredLine(geo.positions.val, geo.num_elements, geo.spacing)

\* the points of the centred lattice of rows = floor(sqrt(N)) by
\* cols = ceil(N / rows) points with pitch sp2 / 2, in quarter units
Lattice(n, sp2) ==
    LET rows == ISqrt(n)
        cols == (n + rows - 1) \div rows
    IN { <<(2 * j - (cols - 1)) * sp2, (2 * i - (rows - 1)) * sp2>> :
            i \in 0..(rows - 1), j \in 0..(cols - 1) }

\* C18: for every N >= 1 the rectangular geometry yields exactly N pairwise
\* distinct element positions, on the lattice of floor(sqrt(N)) rows by
\* ceil(N / rows) columns with pitch spacing that is centred at the origin
\* (the lattice clause is read for orientation 0 at the origin).
\* array_model.PhasedArray raises when it constructs a rectangular array.
C18_RectangularLattice ==
    (geo.impl # "none" /\ geo.geometry = "rectangular")
        => /\ ~geo.raised
           /\ geo.positions.given
           /\ Len(geo.positions.val) = geo.num_elements
           /\ \A i, j \in 1..Len(geo.positions.val) :
                  i # j => geo.positions.val[i] # geo.positions.val[j]
           /\ (geo.orientation = 0 /\ geo.position = <<0, 0>>)
                  => \A i \in 1..Len(geo.positions.val) :
                         geo.positions.val[i] \in Lattice(geo.num_elements, geo.spacing)

\* the standard rotation of a local point (quarter units) by deg degrees,
\* followed by the translation by position (length units)
RotateThenTranslate(local, deg, position) ==
    <<(local[1] * Cos2(deg) - local[2] * Sin2(deg)) \div 2 + 4 * position[1],
      (local[1] * Sin2(deg) + local[2] * Cos2(deg)) \div 2 + 4 * position[2]>>

\* C19: for every geometry the world coordinates of an element are its local
\* coordinates rotated by the orientation about the local origin and then
\* translated by the position (orientation 90, position (px, py): local
\* (x, y) maps to (px - y, py + x)). array_model.PhasedArray adds the
\* position to a curved array's local coordinates and never rotates them.
C19_RotateThenTranslate ==
    (geo.impl # "none" /\ ~geo.raised /\ geo.local.given /\ geo.positions.given)
        => /\ Len(geo.positions.val) = Len(geo.local.val)
           /\ \A i \in 1..Len(geo.local.val) :
                  geo.positions.val[i]
                      = RotateThenTranslate(geo.local.val[i], geo.orientation, geo.position)

\* the angular step is the same for every consecutive pair of an angle table
UniformStep(t) ==
    \A i, j \in 1..(Len(t.coef) - 1) :
        t.coef[i + 1] - t.coef[i] = t.coef[j + 1] - t.coef[j]

\* radius times subtended angle equals target4 quarter units, decided exactly:
\* the product is (radius.num * span * unit.num) / (den * unit.den) times 1,
\* pi, 1 / pi or an arcsine, and a nonzero rational multiple of pi, of 1 / pi
\* or of the arcsine of a rational number is not rational
ArcLengthIs(t, target4) ==
    LET span == t.coef[Len(t.coef)] - t.coef[1]
        prod == t.radius.num * span * t.unit.num
        rational == \/ t.unit.kind = "rad" /\ ~t.radius.over_pi
                    \/ t.unit.kind = "pi" /\ t.radius.over_pi
    IN /\ t.unit.kind # "nan"
       /\ IF rational
          THEN prod = target4 * t.den * t.unit.den
          ELSE prod = 0 /\ target4 = 0

\* C20: for every curved array of N elements with spacing s, the angular step
\* between consecutive elements is the same for every consecutive pair, and
\* the arc length from the first to the last element (radius times subtended
\* angle) equals (N-1) * s, in every implementation and for every curvature
\* radius (s is taken as the element_spacing attribute). backend_pt2 always
\* spans half a circle, and array_model.PhasedArray makes the chord, not the
\* arc, equal to (N-1) * s.
C20_UniformArcOfLengthNs ==
    (geo.impl # "none" /\ ~geo.raised /\ geo.angles.given)
        => /\ UniformStep(geo.angles.val)
           /\ ArcLengthIs(geo.angles.val, (geo.num_elements - 1) * 2 * geo.spacing)

----------------------------------------------------------------------------
(* Claims about steering, checked under SpecSteering *)

\* C21: steering a linear array of N elements with spacing given in
\* wavelengths to angle theta assigns element i the phase
\* -2*pi*spacing*(i - (N-1)/2)*sin(theta) (so every phase is 0 at theta = 0,
\* and for N = 8, spacing 0.5, theta = 30 degrees phase[0] and phase[7] have
\* opposite signs and differ by 2*pi*0.5*7*sin(30 deg)). backend_pt2 assigns
\* +2*pi*spacing*i*sin(theta), counted from the first element.
C21_SteeringPhases ==
    (steer.impl # "none" /\ ~steer.raised)
        => /\ Len(steer.phases) = steer.num_elements
           /\ \A i \in 1..steer.num_elements :
                  steer.phases[i]
                      = 0 - (2 * (i - 1) - (steer.num_elements - 1))
                              * steer.spacing * Sin2(steer.angle)

----------------------------------------------------------------------------
(* Claims about focusing, checked under SpecFocus *)

\* the array was just focused by a set_focus_point call that returned
Focused == pa_ret.op = "set_focus_point" /\ ~pa_ret.raised

\* speed * (k * distance_i + phase_i) in units of pi/4, for the focus point,
\* frequency and speed of the last call: k * distance is
\* 2*pi*f * (d4 / 4) / speed = (pi/4) * 2 * f * d4 / speed
ArrivalPhase(i) ==
    2 * pa_ret.arg[2] * FocusDistances(pa, pa_ret.arg[1])[i]
        + pa_ret.arg[3] * pa.phase_shifts[i]

\* C22: after set_focus_point the wavefronts of all elements arrive in phase
\* at the focus point: k * distance_i + phase_i is the same for every
\* element i; every delay is >= 0 and the farthest element has delay 0.
C22_FocusInPhase ==
    Focused
        => LET d == FocusDistances(pa, pa_ret.arg[1])
           IN /\ \A i, j \in 1..pa.num_elements : ArrivalPhase(i) = ArrivalPhase(j)
              /\ \A i \in 1..pa.num_elements :
                     /\ pa.delays[i] >= 0
                     /\ d[i] = SeqMax(d) => pa.delays[i] = 0

\* a focused array of three elements at three different distances from the
\* focus point, with nonzero frequency
C22_Witness ==
    /\ Focused
    /\ pa.num_elements = 3
    /\ pa_ret.arg[2] > 0
    /\ LET d == FocusDistances(pa, pa_ret.arg[1])
       IN d[1] # d[2] /\ d[2] # d[3] /\ d[1] # d[3]
    /\ \A i, j \in 1..pa.num_elements : ArrivalPhase(i) = ArrivalPhase(j)

----------------------------------------------------------------------------
(* Claims about beam profiles, checked under SpecProfile *)

\* C23: in every beam-profile computation, when the magnitude is zero at
\* every angle (no arrays, or no elements) the call returns, the normalized
\* magnitude is zero at every angle and no value is undefined. backend_pt2
\* raises out of get_element_positions when the array has no element.
C23_ZeroProfileStaysZero ==
    (/\ prof.impl # "none"
     /\ \/ prof.elements = 0
        \/ \A i \in 1..Len(prof.magsq) : prof.magsq[i] = 0)
        => /\ ~prof.raised
           /\ Len(prof.normalized) = Len(SampleSines)
           /\ \A i \in 1..Len(prof.normalized) :
                  prof.normalized[i].kind = "ratio" /\ prof.normalized[i].num = 0
           /\ \A i \in 1..Len(prof.magnitude) : prof.magnitude[i].kind # "nan"

----------------------------------------------------------------------------
(* Claims about the task managers, checked under SpecTasks / SpecTasksFair *)

\* C24: terminal statuses are final under every interleaving: once a task is
\* cancelled, completed or failed its status never changes again. Both
\* managers let a worker overwrite the status of a task cancelled meanwhile.
C24_Step ==
    (tm.impl # "none")
        => \A t \in 1..Len(tm.tasks) :
               tm.tasks[t].status \in TerminalStatuses
                   => tm'.tasks[t].status = tm.tasks[t].status

C24_TerminalIsFinal == [][C24_Step]_vars

\* the id of task object t was given out by submit_task
Submitted(t) ==
    \E o \in 1..Len(tm.tasks) :
        tm.tasks[o].id = tm.tasks[t].id /\ tm.tasks[o].origin = "submit_task"

\* C25: every task submitted with submit_task while the workers are running
\* eventually reaches a terminal status: no task of an id that submit_task
\* gave out (the Task object submit_task stored, or one stored under the id
\* since) stays pending or running forever, unless the workers are stopped.
C25_EveryTaskTerminates ==
    \A t \in 1..MaxObjects :
        (/\ tm.impl # "none" /\ t <= Len(tm.tasks)
         /\ Submitted(t))
            ~> (/\ tm.impl # "none" /\ t <= Len(tm.tasks)
                /\ \/ tm.tasks[t].status \in TerminalStatuses
                   \/ ~tm.is_running)

\* the same for the ids load_state has stored no task under; this holds
C25_UnlessLoaded ==
    \A t \in 1..MaxObjects :
        (/\ tm.impl # "none" /\ t <= Len(tm.tasks)
         /\ Submitted(t))
            ~> (/\ tm.impl # "none" /\ t <= Len(tm.tasks)
                /\ \/ tm.tasks[t].status \in TerminalStatuses
                   \/ ~tm.is_running
                   \/ \E o \in 1..Len(tm.tasks) :
                          /\ tm.tasks[o].id = tm.tasks[t].id
                          /\ tm.tasks[o].origin = "load_state")

----------------------------------------------------------------------------
(* Claims about array ids, checked under SpecArrayIds *)

PairwiseDistinct(ids) ==
    \A j, k \in 1..Len(ids) : j # k => ids[j] # ids[k]

\* C26: within one Beamformer and within one BeamformingEngine the ids of the
\* held arrays are pairwise distinct. Neither add_array looks at the ids
\* already held.
C26_ArrayIdsDistinct ==
    /\ PairwiseDistinct(ArrayIdsOf(bf.arrays))
    /\ PairwiseDistinct(ArrayIdsOf(engine.arrays))

\* the same for the Beamformer alone and for the engine alone
C26_BeamformerIdsDistinct == PairwiseDistinct(ArrayIdsOf(bf.arrays))
C26_EngineIdsDistinct == PairwiseDistinct(ArrayIdsOf(engine.arrays))

----------------------------------------------------------------------------
(* Claims about names in the scenario store, checked under SpecStore *)

\* C27: saving a scenario under name B changes only the entry for B: for
\* every other name A, names that differ from B only in letter case or in
\* spaces versus underscores included, load_scenario(A) returns the same
\* after the save as before it. Both names map to one file.
C27_SaveTouchesOneName ==
    (scn_ret.op = "save_scenario" /\ ~scn_ret.raised)
    => \A A \in StoreNames :
           A # scn_ret.arg.name.val
           => LoadScenario(store, A) = LoadScenario(scn_ret.before, A)

\* the same for the names that do not share the file of B; this holds
C27_OtherFilesUntouched ==
    (scn_ret.op = "save_scenario" /\ ~scn_ret.raised)
    => \A A \in StoreNames :
           FileName(A) # FileName(scn_ret.arg.name.val)
           => LoadScenario(store, A) = LoadScenario(scn_ret.before, A)

----------------------------------------------------------------------------
(* Claims about the preset scenarios, checked under SpecScenarios *)

\* C28: for every scenario id, the ids of built-in scenarios included, after
\* save_scenario(id, ...) returned True, get_scenario(id) returns the
\* scenario that was just saved. For a built-in id get_scenario returns the
\* built-in scenario.
C28_GetReturnsSaved ==
    (scns.ret.op = "save_scenario" /\ scns.ret.value)
    => ScenariosGetScenario(scns.obj, scns.ret.scenario_id) = Some(scns.ret.saved)

\* the same for the ids that are not built-in; this holds
C28_GetReturnsSavedCustom ==
    (/\ scns.ret.op = "save_scenario" /\ scns.ret.value
     /\ scns.ret.scenario_id \notin DOMAIN BuiltinScenarios)
    => ScenariosGetScenario(scns.obj, scns.ret.scenario_id) = Some(scns.ret.saved)

----------------------------------------------------------------------------
(* Claims about update_array_parameter, checked under SpecUpdate *)

\* C29: update_array_parameter returns False, raises nothing and leaves every
\* array unchanged whenever array_id is outside 0..len(arrays)-1 (negative
\* ids included) or the parameter is not updatable. A negative id reaches the
\* list.
C29_InvalidUpdateRejected ==
    (/\ upd.ret.op = "update_array_parameter"
     /\ \/ upd.ret.array_id \notin 0..(Len(upd.ret.before) - 1)
        \/ upd.ret.parameter \notin GeometryParameters \cup SimpleParameters)
    => (~upd.ret.value /\ ~upd.ret.raised /\ upd.e.arrays = upd.ret.before)

\* the same without the negative ids; this holds
C29_TooLargeOrUnknownRejected ==
    (/\ upd.ret.op = "update_array_parameter"
     /\ \/ upd.ret.array_id >= Len(upd.ret.before)
        \/ upd.ret.parameter \notin GeometryParameters \cup SimpleParameters)
    => (~upd.ret.value /\ ~upd.ret.raised /\ upd.e.arrays = upd.ret.before)

----------------------------------------------------------------------------
(* Claims about the backend_pt2 simulator, checked under SpecSimulator *)

\* C30: after any sequence of update_parameters and set_propagation_speed
\* calls the physical element spacing is the most recently configured
\* spacing in wavelengths (default 0.5) times the current wavelength. A new
\* frequency leaves the spacing of the old wavelength, and a new speed
\* resets the spacing to half a wavelength.
C30_SpacingFollowsWavelength ==
    sim2.constructed
    => sim2.obj.element_spacing = sim2.configured * sim2.obj.wavelength

\* the wavelength itself is always speed / frequency; this holds
C30_WavelengthIsCurrent ==
    sim2.constructed
    => sim2.obj.wavelength * sim2.obj.frequency = sim2.obj.propagation_speed

\* right after construction the spacing is the configured one; this holds
C30_AfterConstruction ==
    (sim2.constructed /\ sim2.ret.op = "__init__")
    => sim2.obj.element_spacing = sim2.configured * sim2.obj.wavelength

====
